---- MODULE Spec2Model ----
(***************************************************************************)
(* Model of the ticket pipeline of jra-api: the Bet Record Normalizer      *)
(* (app/services/ipat_service.py), the Combination Expander and the        *)
(* Settlement Engine (app/services/judgment_logic.py), and the sync and    *)
(* settlement runs that drive them (ipat_service.py, race_service.py).     *)
(*                                                                         *)
(* Strings are sequences of one-character strings.  Characters outside     *)
(* ASCII are written by name: "F0".."F9" are the full-width digits         *)
(* U+FF10..U+FF19, "NEN", "GATSU" and "NICHI" are the date suffixes        *)
(* U+5E74, U+6708 and U+65E5, "IDSP" is the ideographic space U+3000.      *)
(***************************************************************************)
EXTENDS Integers, Sequences, FiniteSets, TLC

VARIABLES tickets, races, runs, sync_logs, settle, fin, fout,
          _PLAYWRIGHT_SEMAPHORE, sessions

sysvars == <<tickets, races, runs, sync_logs, settle, _PLAYWRIGHT_SEMAPHORE, sessions>>
funvars == <<fin, fout>>
slotvars == <<_PLAYWRIGHT_SEMAPHORE, sessions>>
vars == <<tickets, races, runs, sync_logs, settle, fin, fout, _PLAYWRIGHT_SEMAPHORE, sessions>>

(***************************************************************************)
(* Characters and the str methods the Normalizer uses                      *)
(***************************************************************************)
HwDigits == <<"0", "1", "2", "3", "4", "5", "6", "7", "8", "9">>
FwDigits == <<"F0", "F1", "F2", "F3", "F4", "F5", "F6", "F7", "F8", "F9">>

IsHw(c) == \E i \in 1..10 : HwDigits[i] = c
IsFw(c) == \E i \in 1..10 : FwDigits[i] = c

\* str.isdigit() on one character: true of ASCII and of full-width digits
IsDigitChar(c) == IsHw(c) \/ IsFw(c)

\* the decimal value int() gives a digit character
DigitVal(c) ==
  IF IsHw(c) THEN (CHOOSE i \in 1..10 : HwDigits[i] = c) - 1
  ELSE (CHOOSE i \in 1..10 : FwDigits[i] = c) - 1

\* ord(c), the key of sorted() on strings
Ord(c) ==
  CASE c = " " -> 32
    [] c = "-" -> 45
    [] c = "/" -> 47
    [] IsHw(c) -> 48 + DigitVal(c)
    [] c = "x" -> 120
    [] c = "IDSP" -> 12288
    [] c = "NEN" -> 24180
    [] c = "NICHI" -> 26085
    [] c = "GATSU" -> 26376
    [] IsFw(c) -> 65296 + DigitVal(c)

\* str.isspace() on one character
IsSpace(c) == c = " " \/ c = "IDSP"

RECURSIVE LStrip(_)
LStrip(s) == IF s # <<>> /\ IsSpace(Head(s)) THEN LStrip(Tail(s)) ELSE s

RECURSIVE RStrip(_)
RStrip(s) ==
  IF s # <<>> /\ IsSpace(s[Len(s)]) THEN RStrip(SubSeq(s, 1, Len(s) - 1)) ELSE s

\* str.strip()
Strip(s) == RStrip(LStrip(s))

\* str.translate(_FW_TO_HW_DIGITS)
Translate(s) ==
  [i \in 1..Len(s) |-> IF IsFw(s[i]) THEN HwDigits[DigitVal(s[i]) + 1] ELSE s[i]]

\* str.isdigit()
IsDigitStr(s) == s # <<>> /\ \A i \in 1..Len(s) : IsDigitChar(s[i])

RECURSIVE DecVal(_)
DecVal(s) == IF s = <<>> THEN 0 ELSE 10 * DecVal(SubSeq(s, 1, Len(s) - 1)) + DigitVal(s[Len(s)])

ValueError == -1

\* int(s) for a string: surrounding whitespace is accepted, every digit
\* character counts, anything else is a ValueError
IntOfStr(s) == IF IsDigitStr(Strip(s)) THEN DecVal(Strip(s)) ELSE ValueError

RECURSIVE StrOfInt(_)
\* str(n) for n >= 0
StrOfInt(n) == IF n < 10 THEN <<HwDigits[n + 1]>> ELSE StrOfInt(n \div 10) \o <<HwDigits[(n % 10) + 1]>>

RECURSIVE Zfill(_, _)
\* str.zfill(w)
Zfill(s, w) == IF Len(s) >= w THEN s ELSE Zfill(<<"0">> \o s, w)

RECURSIVE Remove(_, _)
\* str.replace(c, "")
Remove(s, c) ==
  IF s = <<>> THEN <<>>
  ELSE IF Head(s) = c THEN Remove(Tail(s), c) ELSE <<Head(s)>> \o Remove(Tail(s), c)

RECURSIVE StrLess(_, _)
\* s < t for Python strings
StrLess(s, t) ==
  IF t = <<>> THEN FALSE
  ELSE IF s = <<>> THEN TRUE
  ELSE IF Ord(Head(s)) # Ord(Head(t)) THEN Ord(Head(s)) < Ord(Head(t))
  ELSE StrLess(Tail(s), Tail(t))

RECURSIVE InsertSorted(_, _)
InsertSorted(x, l) ==
  IF l = <<>> THEN <<x>>
  ELSE IF StrLess(x, Head(l)) THEN <<x>> \o l
  ELSE <<Head(l)>> \o InsertSorted(x, Tail(l))

RECURSIVE Sorted(_)
\* sorted(list of str).  The sort is stable; equal strings are identical.
Sorted(l) == IF l = <<>> THEN <<>> ELSE InsertSorted(l[Len(l)], Sorted(SubSeq(l, 1, Len(l) - 1)))

(***************************************************************************)
(* Bet Record Normalizer, app/services/ipat_service.py                     *)
(***************************************************************************)
None == [t |-> "None"]
PyStr(s) == [t |-> "str", v |-> s]
PyInt(n) == [t |-> "int", v |-> n]

\* str(x) for the raw values the parsers produce
Str(x) == IF x.t = "int" THEN StrOfInt(x.v) ELSE x.v

\* "not x" for None, str and int
Falsy(x) == x.t = "None" \/ (x.t = "str" /\ x.v = <<>>) \/ (x.t = "int" /\ x.v = 0)

\* the date with its separators left in
_normalize_date_as_written(date_str) == IF Falsy(date_str) THEN <<>> ELSE Strip(Str(date_str))

_normalize_date(date_str) ==
  IF Falsy(date_str) THEN <<>>
  ELSE Strip(Remove(Remove(Remove(Remove(Remove(Str(date_str), "/"), "-"), "NEN"), "GATSU"), "NICHI"))

_normalize_receipt_no(receipt_no) ==
  IF receipt_no.t = "None" THEN <<>> ELSE Translate(Strip(Str(receipt_no)))

_normalize_line_no_raw(line_no) ==
  IF line_no.t = "None" THEN <<>> ELSE Translate(Strip(Str(line_no)))

\* the line number as written, without str(int(s))
_normalize_line_no_as_written(line_no) == _normalize_line_no_raw(line_no)

_normalize_line_no(line_no) ==
  LET s == _normalize_line_no_raw(line_no)
  IN IF s = <<>> THEN <<>>
     ELSE IF IntOfStr(s) # ValueError THEN StrOfInt(IntOfStr(s)) ELSE s

\* process_list: zero-pad every all-digit token to two characters, then sort
process_token(x) == LET s == Strip(x) IN IF IsDigitStr(s) THEN Zfill(s, 2) ELSE s

process_list(lst, sort) ==
  LET normalized == [i \in 1..Len(lst) |-> process_token(lst[i])]
  IN IF sort THEN Sorted(normalized) ELSE normalized

\* the normalization that sorts axis whatever positions holds
_normalize_horse_numbers_sorting_axis(content) ==
  [k \in DOMAIN content |->
     CASE k = "axis" -> process_list(content[k], TRUE)
       [] k = "partners" -> process_list(content[k], TRUE)
       [] k = "selections" -> [i \in 1..Len(content[k]) |-> process_list(content[k][i], TRUE)]
       [] OTHER -> content[k]]

_normalize_horse_numbers(content) ==
  LET has_positions == IF "positions" \in DOMAIN content THEN content.positions # <<>> ELSE FALSE
  IN [k \in DOMAIN content |->
        CASE k = "axis" -> process_list(content[k], ~has_positions)
          [] k = "partners" -> process_list(content[k], TRUE)
          [] k = "selections" -> [i \in 1..Len(content[k]) |-> process_list(content[k][i], TRUE)]
          [] OTHER -> content[k]]

\* RACE_COURSE_MAP.get(place, "00"), app/constants.py
RACE_COURSE_MAP(place) ==
  CASE place = "Sapporo" -> <<"0", "1">>
    [] place = "Hakodate" -> <<"0", "2">>
    [] place = "Fukushima" -> <<"0", "3">>
    [] place = "Niigata" -> <<"0", "4">>
    [] place = "Tokyo" -> <<"0", "5">>
    [] place = "Nakayama" -> <<"0", "6">>
    [] place = "Chukyo" -> <<"0", "7">>
    [] place = "Kyoto" -> <<"0", "8">>
    [] place = "Hanshin" -> <<"0", "9">>
    [] place = "Kokura" -> <<"1", "0">>
    [] OTHER -> <<"0", "0">>

\* d.get(k, default)
Get(d, k, default) == IF k \in DOMAIN d THEN d[k] ELSE default

\* the fingerprint over "receipt-line-" and the content, the date left out
receipt_unique_id_without_date(raw, normalized_content) ==
  [head |-> _normalize_receipt_no(Get(raw, "receipt_no", None)) \o <<"-">>
              \o _normalize_line_no(Get(raw, "line_no", None)) \o <<"-">>,
   json |-> normalized_content]

\* receipt_unique_id: md5 over "date-receipt-line-" followed by the JSON of the
\* normalized content with sorted keys.  md5 is taken as injective; the JSON
\* text starts with "{" and is a one-to-one rendering of the content.
receipt_unique_id(raw, normalized_content) ==
  [head |-> _normalize_date(raw.race_date_str) \o <<"-">>
              \o _normalize_receipt_no(Get(raw, "receipt_no", None)) \o <<"-">>
              \o _normalize_line_no(Get(raw, "line_no", None)) \o <<"-">>,
   json |-> normalized_content]

\* the exception _map_ticket_to_db_format raises on ticket_data, "none" when it
\* returns: a subscript of a missing key is a KeyError, zfill on an int race
\* number an AttributeError
map_exception(ticket_data) ==
  LET raw == ticket_data.raw
      parsed == ticket_data.parsed
  IN IF "race_date_str" \notin DOMAIN raw \/ "race_place" \notin DOMAIN raw
        \/ "race_number_str" \notin DOMAIN raw THEN "KeyError"
     ELSE IF raw.race_number_str.t # "str" THEN "AttributeError"
     ELSE IF "content" \notin DOMAIN parsed THEN "KeyError"
     ELSE IF \E k \in {"amount_per_point", "total_cost", "bet_type", "buy_type", "payout", "status"} :
                k \notin DOMAIN parsed THEN "KeyError"
     ELSE "none"

\* total_points derived from the cost whether or not the record supplies it
total_points_always_derived(parsed) ==
  IF parsed.amount_per_point > 0 THEN parsed.total_cost \div parsed.amount_per_point ELSE 0

\* total_points: parsed.get("total_points", 0), derived from the cost when 0
total_points_of(parsed) ==
  IF Get(parsed, "total_points", 0) = 0 /\ parsed.amount_per_point > 0
  THEN parsed.total_cost \div parsed.amount_per_point
  ELSE Get(parsed, "total_points", 0)

_map_ticket_to_db_format(ticket_data) ==
  LET raw == ticket_data.raw
      parsed == ticket_data.parsed
      normalized_date == _normalize_date(raw.race_date_str)
      race_id == normalized_date \o RACE_COURSE_MAP(raw.race_place) \o Zfill(raw.race_number_str.v, 2)
      normalized_content == _normalize_horse_numbers(parsed.content)
      total_points == total_points_of(parsed)
  IN [race_id |-> race_id,
      bet_type |-> parsed.bet_type,
      buy_type |-> parsed.buy_type,
      content |-> normalized_content,
      amount_per_point |-> parsed.amount_per_point,
      total_points |-> total_points,
      total_cost |-> parsed.total_cost,
      payout |-> parsed.payout,
      status |-> parsed.status,
      source |-> Get(parsed, "source", "IPAT_SYNC"),
      mode |-> Get(parsed, "mode", "REAL"),
      receipt_unique_id |-> receipt_unique_id(raw, normalized_content)]

\* the call _map_ticket_to_db_format(t, user_id) with its outcome
try_map_ticket_to_db_format(ticket_data) ==
  IF map_exception(ticket_data) # "none" THEN [ok |-> FALSE, exc |-> map_exception(ticket_data)]
  ELSE [ok |-> TRUE, v |-> _map_ticket_to_db_format(ticket_data)]

(***************************************************************************)
(* Combination Expander and Settlement Engine,                             *)
(* app/services/judgment_logic.py                                          *)
(***************************************************************************)
Ok(v) == [ok |-> TRUE, v |-> v]
Raise(e) == [ok |-> FALSE, exc |-> e]

\* The two classes a content object can have.  A tickets row holds the content
\* as a JSON object (a dict); Ticket(**t_dict) validates it into a BetContent,
\* a pydantic model, which declares the seven fields and no get() method.
Dict(c) == [cls |-> "dict", f |-> c]
BetContent(c) == [cls |-> "BetContent", f |-> c]

\* whether content.get(key, default) exists
HasGet(content) == content.cls = "dict"

RECURSIVE ConcatAll(_)
ConcatAll(ss) == IF ss = <<>> THEN <<>> ELSE Head(ss) \o ConcatAll(Tail(ss))

DropAt(l, i) == SubSeq(l, 1, i - 1) \o SubSeq(l, i + 1, Len(l))

RECURSIVE permutations(_, _)
\* itertools.permutations(pool, r), in the order itertools yields them
permutations(pool, r) ==
  IF r = 0 THEN << <<>> >>
  ELSE ConcatAll([i \in 1..Len(pool) |->
         LET rest == permutations(DropAt(pool, i), r - 1)
         IN [j \in 1..Len(rest) |-> <<pool[i]>> \o rest[j]]])

RECURSIVE combinations(_, _)
\* itertools.combinations(pool, r)
combinations(pool, r) ==
  IF r = 0 THEN << <<>> >>
  ELSE IF Len(pool) < r THEN <<>>
  ELSE LET with == combinations(Tail(pool), r - 1)
       IN [j \in 1..Len(with) |-> <<Head(pool)>> \o with[j]] \o combinations(Tail(pool), r)

RECURSIVE product_distinct(_)
\* the product without the tuples that name a horse twice
product_distinct(groups) ==
  IF groups = <<>> THEN << <<>> >>
  ELSE LET rest == product_distinct(Tail(groups))
       IN ConcatAll([i \in 1..Len(Head(groups)) |->
            SelectSeq([j \in 1..Len(rest) |-> <<Head(groups)[i]>> \o rest[j]],
                      LAMBDA t : \A m \in 2..Len(t) : t[m] # t[1])])

RECURSIVE product(_)
\* itertools.product(*groups)
product(groups) ==
  IF groups = <<>> THEN << <<>> >>
  ELSE LET rest == product(Tail(groups))
       IN ConcatAll([i \in 1..Len(Head(groups)) |->
            [j \in 1..Len(rest) |-> <<Head(groups)[i]>> \o rest[j]]])

\* to_ints: [int(x) for x in str_list]
to_ints_ok(str_list) == \A i \in 1..Len(str_list) : IntOfStr(str_list[i]) # ValueError
to_ints(str_list) == [i \in 1..Len(str_list) |-> IntOfStr(str_list[i])]

\* only EXACTA taken as an ordered bet type
IsOrderedType_exacta_only(bet_type) == bet_type = "EXACTA"

IsOrderedType(bet_type) == bet_type \in {"EXACTA", "TRIFECTA"}

_get_combination_r(bet_type) ==
  IF bet_type \in {"WIN", "PLACE"} THEN 1
  ELSE IF bet_type \in {"BRACKET_QUINELLA", "QUINELLA", "QUINELLA_PLACE", "EXACTA"} THEN 2
  ELSE IF bet_type \in {"TRIO", "TRIFECTA"} THEN 3
  ELSE 1

\* the NAGASHI expansion that lists axis and chosen partners once, unpermuted
expand_nagashi_unpermuted(bet_type, axis, partners, multi) ==
  LET needed_partners == _get_combination_r(bet_type) - Len(axis)
      partner_combs == combinations(partners, needed_partners)
  IN IF needed_partners < 0 THEN <<>>
     ELSE [j \in 1..Len(partner_combs) |-> axis \o partner_combs[j]]

\* the NAGASHI branch of _expand_combinations, for axis and partners as ints
expand_nagashi(bet_type, axis, partners, multi) ==
  LET r == _get_combination_r(bet_type)
      needed_partners == r - Len(axis)
      partner_combs == combinations(partners, needed_partners)
      of(p_comb) ==
        LET base_set == axis \o p_comb
        IN IF multi
           THEN IF IsOrderedType(bet_type) THEN permutations(base_set, r) ELSE <<base_set>>
           ELSE IF bet_type = "EXACTA"
                THEN [k \in 1..Len(p_comb) |-> axis \o <<p_comb[k]>>]
                ELSE IF bet_type = "TRIFECTA"
                     THEN LET pp == permutations(p_comb, Len(p_comb))
                          IN [k \in 1..Len(pp) |-> axis \o pp[k]]
                     ELSE <<base_set>>
  IN IF needed_partners < 0 THEN <<>>
     ELSE ConcatAll([j \in 1..Len(partner_combs) |-> of(partner_combs[j])])

_expand_combinations(bet_type, method, content) ==
  IF ~HasGet(content) THEN Raise("AttributeError")
  ELSE
  LET c == content.f
      selections == c.selections
  IN IF method = "BOX"
     THEN IF selections = <<>> THEN Raise("IndexError")
          ELSE IF ~to_ints_ok(selections[1]) THEN Raise("ValueError")
          ELSE LET horses == to_ints(selections[1])
                   r == _get_combination_r(bet_type)
               IN IF IsOrderedType(bet_type) THEN Ok(permutations(horses, r))
                  ELSE Ok(combinations(horses, r))
     ELSE IF method = "NAGASHI"
     THEN IF ~to_ints_ok(c.axis) \/ ~to_ints_ok(c.partners) THEN Raise("ValueError")
          ELSE Ok(expand_nagashi(bet_type, to_ints(c.axis), to_ints(c.partners), c.multi))
     ELSE IF method = "FORMATION"
     THEN IF \E i \in 1..Len(selections) : ~to_ints_ok(selections[i]) THEN Raise("ValueError")
          ELSE Ok(product([i \in 1..Len(selections) |-> to_ints(selections[i])]))
     ELSE IF \E i \in 1..Len(selections) : ~to_ints_ok(selections[i]) THEN Raise("ValueError")
          ELSE Ok([i \in 1..Len(selections) |-> to_ints(selections[i])])

SetOf(l) == {l[i] : i \in 1..Len(l)}

_is_hit(bet_type, winning_horses, user_combinations) ==
  IF bet_type \in {"WIN", "PLACE"}
  THEN \E i \in 1..Len(user_combinations) : user_combinations[i] = winning_horses
  ELSE \E i \in 1..Len(user_combinations) :
         IF IsOrderedType(bet_type)
         THEN user_combinations[i] = winning_horses
         ELSE SetOf(user_combinations[i]) = SetOf(winning_horses)

\* the rule without its step B, the check of the other finishers
is_hit_nagashi_ordered_axis_only(axis, partners, positions, winning_horses) ==
  IF positions = <<>> \/ Len(axis) # Len(positions) THEN FALSE
  ELSE \A k \in 1..Len(axis) :
          LET idx == positions[k] - 1
          IN /\ ~(idx < 0 \/ idx >= Len(winning_horses))
             /\ winning_horses[idx + 1] = axis[k]

\* _is_hit_nagashi_ordered for axis and partners already converted by int()
is_hit_nagashi_ordered_ints(axis, partners, positions, winning_horses) ==
  IF positions = <<>> \/ Len(axis) # Len(positions) THEN FALSE
  ELSE /\ \A k \in 1..Len(axis) :
            LET idx == positions[k] - 1
            IN /\ ~(idx < 0 \/ idx >= Len(winning_horses))
               /\ winning_horses[idx + 1] = axis[k]
       /\ \A i \in 0..(Len(winning_horses) - 1) :
            (i \notin {positions[k] - 1 : k \in 1..Len(positions)})
               => winning_horses[i + 1] \in SetOf(partners)

_is_hit_nagashi_ordered(content, winning_horses) ==
  IF ~HasGet(content) THEN Raise("AttributeError")
  ELSE IF ~to_ints_ok(content.f.axis) \/ ~to_ints_ok(content.f.partners) THEN Raise("ValueError")
  ELSE Ok(is_hit_nagashi_ordered_ints(to_ints(content.f.axis), to_ints(content.f.partners),
                                      content.f.positions, winning_horses))

\* getattr(payout_data, bet_type, []): the list the PayoutData model holds for
\* one of its eight fields (None when the field was not given), [] for any
\* other bet_type
PayoutFields == {"WIN", "PLACE", "BRACKET_QUINELLA", "QUINELLA", "QUINELLA_PLACE",
                 "EXACTA", "TRIO", "TRIFECTA"}

payout_items_of(payout_data, bet_type) ==
  IF bet_type \in PayoutFields /\ bet_type \in DOMAIN payout_data.d THEN payout_data.d[bet_type] ELSE <<>>

RECURSIVE SumSeq(_)
SumSeq(l) == IF l = <<>> THEN 0 ELSE Head(l) + SumSeq(Tail(l))

\* payout_data: None, or the payout table as the function d from the bet types
\* it lists to their items (the dict of the races row, the PayoutData object
\* made of it)
PayoutData(d) == [t |-> "PayoutData", d |-> d]

\* judge_ticket, the loop over payout_items: is_hit[i] is the outcome of
\* _is_hit_nagashi_ordered or _is_hit for the i-th item; an exception leaves
\* the loop at the first item
judge_ticket_loop(ticket, payout_items, is_hit) ==
  IF ~is_hit[1].ok THEN is_hit[1]
  ELSE IF \E i \in 1..Len(payout_items) : is_hit[i].v
  THEN Ok([status |-> "HIT",
           payout |-> SumSeq([i \in 1..Len(payout_items) |->
                        IF is_hit[i].v
                        THEN (ticket.amount_per_point * payout_items[i].money) \div 100
                        ELSE 0])])
  ELSE Ok([status |-> "LOSE", payout |-> 0])

\* judge_ticket once user_combinations is known (or its expansion has raised)
judge_ticket_expanded(ticket, payout_items, is_ordered_nagashi, user_combinations) ==
  IF ~user_combinations.ok THEN user_combinations
  ELSE judge_ticket_loop(ticket, payout_items,
         [i \in 1..Len(payout_items) |->
            IF is_ordered_nagashi
            THEN _is_hit_nagashi_ordered(ticket.content, payout_items[i].horse)
            ELSE Ok(_is_hit(ticket.bet_type, payout_items[i].horse, user_combinations.v))])

\* judge_ticket once is_ordered_nagashi is known
judge_ticket_ordered(ticket, payout_items, is_ordered_nagashi) ==
  judge_ticket_expanded(ticket, payout_items, is_ordered_nagashi,
    IF is_ordered_nagashi THEN Ok(<<>>)
    ELSE _expand_combinations(ticket.bet_type, ticket.buy_type, ticket.content))

\* judge_ticket from "if not payout_items" on.  content.get is called only
\* when method is "NAGASHI" (the and before it is short-circuit).
judge_ticket_items(ticket, payout_items) ==
  IF payout_items = <<>> THEN Ok([status |-> "LOSE", payout |-> 0])
  ELSE IF ticket.buy_type = "NAGASHI" /\ ~HasGet(ticket.content) THEN Raise("AttributeError")
  ELSE judge_ticket_ordered(ticket, payout_items,
         /\ ticket.buy_type = "NAGASHI"
         /\ ~ticket.content.f.multi
         /\ ticket.bet_type \in {"TRIFECTA", "EXACTA", "TAN"}
         /\ ticket.content.f.positions # <<>>)

\* judge_ticket.  A PayoutData object is always truthy, so "not payout_data"
\* holds of None only.  result_1st..result_3rd are not read by the code.
judge_ticket(ticket, payout_data) ==
  IF payout_data = None THEN Ok([status |-> "LOSE", payout |-> 0])
  ELSE judge_ticket_items(ticket, payout_items_of(payout_data, ticket.bet_type))

(***************************************************************************)
(* The two ingestion parsers, as far as they decide what is stored:        *)
(* parse_jra_csv (app/services/parsers.py) and _parse_recent_detail_html   *)
(* (app/scrapers/jra_scraper.py).  A row is given with its bet already     *)
(* split into bet_type, method and content.                                *)
(***************************************************************************)
\* parse_jra_csv, one data row: amounts, payout and status columns
parse_jra_csv(row) ==
  LET amount_per_point == row.amount_per_point
      total_cost == row.total_cost
      total_points == IF amount_per_point > 0 THEN total_cost \div amount_per_point ELSE 0
      payout == IF IsDigitStr(row.payout_str) THEN DecVal(row.payout_str) ELSE 0
      status == IF row.tekichu THEN "WIN"
                ELSE IF payout = 0 /\ amount_per_point > 0 THEN "LOSE"
                ELSE "PENDING"
  IN [raw |-> [receipt_no |-> row.receipt_no, line_no |-> row.line_no,
               race_date_str |-> row.race_date_str, race_place |-> row.race_place,
               race_number_str |-> row.race_number_str],
      parsed |-> [bet_type |-> row.bet_type, buy_type |-> row.method, content |-> row.content,
                  amount_per_point |-> amount_per_point, total_points |-> total_points,
                  total_cost |-> total_cost, payout |-> payout, status |-> status,
                  source |-> "IPAT_CSV", mode |-> "REAL"]]

\* _parse_recent_detail_html, one table row: amount and points fall back to
\* 100 and 1, the cost is their product, the ticket is PENDING with payout 0
_parse_recent_detail_html(row) ==
  LET amount_per_point == IF row.amount_per_point = 0 THEN 100 ELSE row.amount_per_point
      total_points == IF row.total_points = 0 THEN 1 ELSE row.total_points
  IN [raw |-> [receipt_no |-> row.receipt_no, line_no |-> row.line_no,
               race_date_str |-> row.race_date_str, race_place |-> row.race_place,
               race_number_str |-> row.race_number_str],
      parsed |-> [bet_type |-> row.bet_type, buy_type |-> row.method, content |-> row.content,
                  amount_per_point |-> amount_per_point, total_points |-> total_points,
                  total_cost |-> amount_per_point * total_points, payout |-> 0,
                  status |-> "PENDING", source |-> "IPAT_RECENT", mode |-> "REAL"]]

(***************************************************************************)
(* The tickets table and the settlement runs, app/services/race_service.py *)
(***************************************************************************)
\* an insert that does not look at receipt_unique_id
insert(rows, records) == rows \cup records

\* supabase.table("tickets").upsert(records, on_conflict="receipt_unique_id"):
\* a record replaces the row that has its receipt_unique_id, or is added
upsert(rows, records) ==
  {r \in rows : \A n \in records : n.receipt_unique_id # r.receipt_unique_id} \cup records

\* Ticket(**t_dict): the content of the row becomes a BetContent
Ticket(t_dict) == [t_dict EXCEPT !.content = BetContent(t_dict.content)]

\* "not x" and int(x) for a result_1st..result_3rd column
NoValue(x) == x.t = "None" \/ (x.t = "str" /\ x.v = <<>>)
IntParses(x) == x.t = "str" /\ IntOfStr(x.v) # ValueError

\* the guard both callers put before judging: result_1st and payout_data
HasResult(result_data) ==
  /\ ~NoValue(result_data.result_1st)
  /\ result_data.payout_data # None
  /\ DOMAIN result_data.payout_data.d # {}

\* a result _process_hit_detection judges tickets with: the guard holds and
\* int() takes the three finishers
CompleteResult(result_data) ==
  /\ HasResult(result_data)
  /\ \A x \in {result_data.result_1st, result_data.result_2nd, result_data.result_3rd} : IntParses(x)

\* status_to_update and payout, from what judge_ticket returned or raised
status_to_update(judged) ==
  IF judged.ok THEN Ok([status |-> IF judged.v.status = "HIT" THEN "WIN" ELSE judged.v.status,
                        payout |-> judged.v.payout])
  ELSE judged

\* _process_hit_detection, the body of its loop up to the update: the row is
\* made a Ticket and judged, and "HIT" is stored as "WIN"
judge_row(t_dict, payout_data) == status_to_update(judge_ticket(Ticket(t_dict), payout_data))

\* the loop writing the whole Ticket model back instead of status and payout
hit_detection_loop_storing_ticket(rows, pending, judged) ==
  LET settled(r) == [Ticket(r) EXCEPT !.status = judged[r].v.status, !.payout = judged[r].v.payout]
      update(done) == (rows \ done) \cup {settled(r) : r \in done}
      bad == {r \in pending : ~judged[r].ok}
  IN IF bad = {} THEN {[tickets |-> update(pending), raised |-> FALSE]}
     ELSE {[tickets |-> update(done), raised |-> TRUE] : done \in SUBSET (pending \ bad)}

\* _process_hit_detection, the loop: the possible outcomes, one per order in
\* which the select returns the PENDING tickets.  The first ticket whose
\* judgment raises ends the loop; the tickets before it are already updated.
hit_detection_loop(rows, pending, judged) ==
  LET settled(r) == [r EXCEPT !.status = judged[r].v.status, !.payout = judged[r].v.payout]
      update(done) == (rows \ done) \cup {settled(r) : r \in done}
      bad == {r \in pending : ~judged[r].ok}
  IN IF bad = {} THEN {[tickets |-> update(pending), raised |-> FALSE]}
     ELSE {[tickets |-> update(done), raised |-> TRUE] : done \in SUBSET (pending \ bad)}

\* _process_hit_detection for the PENDING tickets the select returns
hit_detection(rows, pending, result_data) ==
  IF pending = {} THEN {[tickets |-> rows, raised |-> FALSE]}
  ELSE IF result_data.payout_data = None THEN {[tickets |-> rows, raised |-> TRUE]}
  ELSE IF \E x \in {result_data.result_1st, result_data.result_2nd, result_data.result_3rd} : ~IntParses(x)
       THEN {[tickets |-> rows, raised |-> FALSE]}
  ELSE hit_detection_loop(rows, pending, [r \in pending |-> judge_row(r, result_data.payout_data)])

_process_hit_detection(rows, race_id, result_data) ==
  hit_detection(rows, {r \in rows : r.race_id = race_id /\ r.status = "PENDING"}, result_data)

ResultOf(race) ==
  [result_1st |-> race.result_1st, result_2nd |-> race.result_2nd,
   result_3rd |-> race.result_3rd, payout_data |-> race.payout_data]

NoResult == [result_1st |-> None, result_2nd |-> None, result_3rd |-> None, payout_data |-> None]

\* update_results, the body of the loop for one race.  st carries the two
\* tables, whether an exception has left the loop and in which race, and the
\* result each visited race was settled with (NoResult when the loop went on
\* to the next race without one).  future: the post time is still ahead;
\* scraped: what scrape_race_result returns, NoResult for None.
update_results_race(st, id, future, scraped) ==
  LET race == st.races[id]
      is_finished == race.status = "FINISHED" /\ HasResult(ResultOf(race))
      result_data == IF is_finished THEN ResultOf(race) ELSE scraped
      races2 == IF is_finished \/ scraped = NoResult THEN st.races
                ELSE [st.races EXCEPT ![id] =
                        [status |-> "FINISHED", result_1st |-> scraped.result_1st,
                         result_2nd |-> scraped.result_2nd, result_3rd |-> scraped.result_3rd,
                         payout_data |-> scraped.payout_data]]
      skip == [st EXCEPT !.used = @ \cup {[id |-> id, result |-> NoResult]}]
  IN IF st.raised THEN {st}
     ELSE IF race.status # "FINISHED" /\ future THEN {skip}
     ELSE IF result_data = NoResult THEN {skip}
     ELSE {[tickets |-> o.tickets, races |-> races2, raised |-> o.raised,
            used |-> st.used \cup {[id |-> id, result |-> result_data]},
            raised_at |-> IF o.raised THEN {id} ELSE {}]
           : o \in _process_hit_detection(st.tickets, id, result_data)}

RECURSIVE update_results(_, _, _, _)
\* update_results(target_date), for the races of the day in the order given
update_results(st, order, future, scraped) ==
  IF order = <<>> THEN {st}
  ELSE UNION {update_results(st2, Tail(order), future, scraped)
              : st2 \in update_results_race(st, Head(order), future[Head(order)], scraped[Head(order)])}

\* judge_existing_races, the body of the loop for one race of race_ids; only
\* FINISHED races are selected, one without result data is passed over, and an
\* exception is caught by the try block around the loop and ends it
judge_existing_race(st, id) ==
  LET race == st.races[id]
  IN IF st.raised THEN {st}
     ELSE IF race.status # "FINISHED" THEN {st}
     ELSE IF ~HasResult(ResultOf(race))
          THEN {[st EXCEPT !.used = @ \cup {[id |-> id, result |-> ResultOf(race)]}]}
     ELSE {[tickets |-> o.tickets, races |-> st.races, raised |-> o.raised,
            used |-> st.used \cup {[id |-> id, result |-> ResultOf(race)]},
            raised_at |-> IF o.raised THEN {id} ELSE {}]
           : o \in _process_hit_detection(st.tickets, id, ResultOf(race))}

RECURSIVE judge_existing_races(_, _)
\* judge_existing_races(race_ids), for the races in the order given
judge_existing_races(st, order) ==
  IF order = <<>> THEN {st}
  ELSE UNION {judge_existing_races(st2, Tail(order)) : st2 \in judge_existing_race(st, Head(order))}

(***************************************************************************)
(* The sync runs, app/services/ipat_service.py                             *)
(***************************************************************************)
RECURSIVE SeqsUpTo(_, _)
SeqsUpTo(S, n) == IF n = 0 THEN {<<>>} ELSE SeqsUpTo(S, n - 1) \cup [1..n -> S]

\* {r["receipt_unique_id"]: r for r in db_records}.values(): of the records
\* that share a receipt_unique_id the last one stays
unique_records(db_records) ==
  {db_records[i] : i \in {k \in 1..Len(db_records) :
      \A j \in (k + 1)..Len(db_records) :
         db_records[j].receipt_unique_id # db_records[k].receipt_unique_id}}

\* a lookup that finds no stored row
_get_existing_receipt_ids_none(rows, receipt_ids) == {}

\* _get_existing_receipt_ids
_get_existing_receipt_ids(rows, receipt_ids) ==
  {id \in receipt_ids : \E r \in rows : r.receipt_unique_id = id}

\* _count_new_receipt_ids, the new_count of its result
_count_new_receipt_ids(rows, receipt_ids) ==
  LET existing_count == Cardinality(_get_existing_receipt_ids(rows, receipt_ids))
      d == Cardinality(receipt_ids) - existing_count
  IN IF d > 0 THEN d ELSE 0

\* _count_new_receipt_ids, the existing_count of its result
existing_count_of(rows, receipt_ids) ==
  Cardinality({id \in receipt_ids : \E r \in rows : r.receipt_unique_id = id})

\* _build_sync_message.  A message is a sequence of phrases; the fixed
\* Japanese phrases are written by name, the count by its decimal digits.
_build_sync_message(new_count) ==
  IF new_count <= 0 THEN <<"SYNC_COMPLETED", "NO_NEW_DATA_FOUND">>
  ELSE <<"SYNC_COMPLETED">> \o StrOfInt(new_count) \o <<"NEW_DATA_FOUND">>

\* phrase in error_str, for an error text given as its sequence of phrases
Contains(error_str, phrase) == \E k \in 1..Len(error_str) : error_str[k] = phrase

\* the except block of sync_and_save_past_history: error_message
past_error_message(error_str) ==
  <<"ERROR_OCCURRED">> \o
    (IF Contains(error_str, "Login Failed: Invalid Credentials") THEN <<"CHECK_YOUR_CREDENTIALS">>
     ELSE IF Contains(error_str, "Session timed out") THEN <<"SESSION_TIMED_OUT_RETRY">>
     ELSE IF Contains(error_str, "Login Failed or Menu Changed") THEN <<"PAGE_TRANSITION_FAILED">>
     ELSE error_str)

\* the except block of sync_and_save_recent_history: error_message
recent_error_message(error_str) ==
  <<"ERROR_OCCURRED">> \o
    (IF Contains(error_str, "Login Failed: Invalid Credentials") THEN <<"CHECK_YOUR_CREDENTIALS">>
     ELSE IF Contains(error_str, "Session timed out") THEN <<"SESSION_TIMED_OUT_RETRY">>
     ELSE IF Contains(error_str, "Login Failed or Menu Changed") THEN <<"PAGE_TRANSITION_FAILED">>
     ELSE IF Contains(error_str, "JRA IPAT is currently closed") THEN <<"VOTING_PAGE_IS_CLOSED">>
     ELSE error_str)


(***************************************************************************)
(* The tickets and races of the model                                      *)
(***************************************************************************)
MaxScrape == 2
MaxRuns == 1

RaceDay == <<"2", "0", "2", "3", "1", "2", "2", "4">>
Race11 == RaceDay \o <<"0", "6">> \o <<"1", "1">>
Race12 == RaceDay \o <<"0", "6">> \o <<"1", "2">>
RaceIds == {Race11, Race12}

Content(method, multi, axis, partners, selections, positions, type) ==
  [type |-> type, method |-> method, multi |-> multi, axis |-> axis,
   partners |-> partners, selections |-> selections, positions |-> positions]

\* the bets of the model: a WIN and a TRIO bet on race 11, an EXACTA bet on
\* race 12, each written as the CSV export and as the recent page give it
Bets ==
  {[race_number_str |-> <<"1", "1">>, receipt_no |-> <<"0", "0", "1", "2">>, line |-> 1,
    bet_type |-> "WIN", method |-> "NORMAL", horses |-> << <<1>> >>],
   [race_number_str |-> <<"1", "1">>, receipt_no |-> <<"0", "0", "1", "2">>, line |-> 2,
    bet_type |-> "TRIO", method |-> "NORMAL", horses |-> << <<1, 2, 3>> >>],
   [race_number_str |-> <<"1", "2">>, receipt_no |-> <<"0", "0", "1", "3">>, line |-> 1,
    bet_type |-> "EXACTA", method |-> "NORMAL", horses |-> << <<3, 5>> >>]}

Written(horses, w) ==
  [i \in 1..Len(horses) |-> [j \in 1..Len(horses[i]) |-> Zfill(StrOfInt(horses[i][j]), w)]]

CsvRowOf(b, tekichu, payout_str) ==
  [race_date_str |-> PyStr(RaceDay), race_place |-> "Nakayama",
   race_number_str |-> PyStr(b.race_number_str),
   receipt_no |-> PyStr(b.receipt_no), line_no |-> PyInt(b.line),
   bet_type |-> b.bet_type, method |-> b.method,
   content |-> Content(b.method, FALSE, <<>>, <<>>, Written(b.horses, 2), <<>>, b.bet_type),
   amount_per_point |-> 100, total_cost |-> 100, tekichu |-> tekichu, payout_str |-> payout_str]

RecentRowOf(b) ==
  [race_date_str |-> PyStr(RaceDay), race_place |-> "Nakayama",
   race_number_str |-> PyStr(b.race_number_str),
   receipt_no |-> PyStr(b.receipt_no), line_no |-> PyInt(b.line),
   bet_type |-> b.bet_type, method |-> b.method,
   content |-> Content(b.method, FALSE, <<>>, <<>>, Written(b.horses, 1), <<>>, b.bet_type),
   amount_per_point |-> 100, total_points |-> 1]

\* what scrape_past_history_csv can return for one row: the row of the WIN or
\* the EXACTA bet before the race is paid (no mark, payout 0) and the row of
\* the WIN bet marked as a hit
CsvTickets ==
  {parse_jra_csv(CsvRowOf(b, FALSE, <<"0">>)) : b \in {x \in Bets : x.bet_type # "TRIO"}}
    \cup {parse_jra_csv(CsvRowOf(b, TRUE, <<"2", "5", "0">>)) : b \in {x \in Bets : x.bet_type = "WIN"}}

\* what scrape_recent_history can return for one row: the bets on race 11
RecentTickets ==
  {_parse_recent_detail_html(RecentRowOf(b)) : b \in {x \in Bets : x.race_number_str = <<"1", "1">>}}

\* [_map_ticket_to_db_format(t, user_id) for t in parsed_tickets], then the
\* removal of duplicates within the list
Mapped == [t \in CsvTickets \cup RecentTickets |-> _map_ticket_to_db_format(t)]

db_records_of(parsed_tickets) ==
  unique_records([i \in 1..Len(parsed_tickets) |-> Mapped[parsed_tickets[i]]])

\* the official result scrape_race_result returns once a race is final
Official(id) ==
  IF id = Race11
  THEN [result_1st |-> PyStr(<<"1">>), result_2nd |-> PyStr(<<"2">>), result_3rd |-> PyStr(<<"4">>),
        payout_data |-> PayoutData([k \in {"WIN"} |-> <<[horse |-> <<1>>, money |-> 250]>>])]
  ELSE [result_1st |-> PyStr(<<"5">>), result_2nd |-> PyStr(<<"3">>), result_3rd |-> PyStr(<<"8">>),
        payout_data |-> PayoutData([k \in {"WIN"} |-> <<[horse |-> <<5>>, money |-> 400]>>])]

RaceRow(status, result) ==
  [status |-> status, result_1st |-> result.result_1st, result_2nd |-> result.result_2nd,
   result_3rd |-> result.result_3rd, payout_data |-> result.payout_data]

\* the races rows a run can find: a race not yet run, and rows marked FINISHED
\* that lack the payout data, the first finisher, or the third finisher
RacesAtStart(id) ==
  IF id = Race11
  THEN {RaceRow("BEFORE", NoResult),
        RaceRow("FINISHED", [Official(id) EXCEPT !.payout_data = None]),
        RaceRow("FINISHED", [Official(id) EXCEPT !.result_1st = None]),
        RaceRow("FINISHED", [Official(id) EXCEPT !.result_3rd = None])}
  ELSE {RaceRow("BEFORE", NoResult)}

Runs == 1..MaxRuns

\* a run: where it stands, its db_records, new_count and insert_records, the
\* fingerprints the tickets table held when the run looked for existing ones,
\* and whether it has called upsert on the tickets table; added is the number
\* of rows the tickets table has gained by the run's upsert, judge_raised
\* whether an exception was raised in the immediate judgment
Idle == [mode |-> "none", pc |-> "idle", recs |-> {}, new_count |-> 0, insert_records |-> {},
         stored |-> {}, upsert_called |-> FALSE, raised |-> None, propagated |-> FALSE,
         existing_count |-> 0, added |-> 0, judge_raised |-> FALSE]
NoLog == [status |-> "PROCESSING", message |-> <<>>]

\* the exceptions the scrapers raise, str(e) as its phrases
ScrapeErrors ==
  {<<"Login Failed: Invalid Credentials", " (", "WRONG_NUMBERS", ")">>,
   <<"Session timed out", " or became invalid. Please try again.">>,
   <<"JRA IPAT is currently closed", ".">>,
   <<"Playwright is busy (too many concurrent sessions in this instance). ",
     "Please retry in a moment.">>}

\* the exception of a failed request to the tickets table
DbError == <<"APIError">>

\* a run that has returned: what it was, whether it called upsert on the
\* tickets table, the exception its try block caught, and whether an
\* exception left the function
Returned(run, raised) ==
  [Idle EXCEPT !.pc = "done", !.mode = run.mode, !.upsert_called = run.upsert_called,
               !.raised = raised, !.added = run.added]

\* an except block that writes nothing and raises again
except_block_reraising(i, run, error_str) ==
  /\ runs' = [runs EXCEPT ![i] = [Returned(run, PyStr(error_str)) EXCEPT !.propagated = TRUE]]
  /\ sync_logs' = sync_logs

\* except Exception as e: the translated message is written with ERROR and
\* the function returns
except_block(i, run, error_str) ==
  /\ runs' = [runs EXCEPT ![i] = Returned(run, PyStr(error_str))]
  /\ sync_logs' = [sync_logs EXCEPT ![i] =
                     [status |-> "ERROR",
                      message |-> IF run.mode = "past" THEN past_error_message(error_str)
                                  ELSE recent_error_message(error_str)]]
NoSettle == [op |-> "none", before |-> {}, used |-> {}, raised_at |-> {}, propagated |-> FALSE,
             rerun |-> {}]

\* the races a settlement run went through with a complete result
Judged_races(used) == {u.id : u \in {x \in used : CompleteResult(x.result)}}

\* of those, the races the settlement run right before this one had already
\* gone through with a complete result, no exception coming from them
Rerun(used) == Judged_races(used) \cap (Judged_races(settle.used) \ settle.raised_at)
NoFun == [t |-> "none"]

\* threading.BoundedSemaphore(value)
BoundedSemaphore(value) == [value |-> value, initial |-> value]

\* the default of PLAYWRIGHT_MAX_CONCURRENCY
DefaultConcurrency == 1

\* the Playwright semaphore of an instance in which no session is running
NoSessions ==
  /\ _PLAYWRIGHT_SEMAPHORE = BoundedSemaphore(DefaultConcurrency)
  /\ sessions = <<>>

Init ==
  /\ tickets = {}
  /\ races \in [RaceIds -> UNION {RacesAtStart(id) : id \in RaceIds}]
  /\ \A id \in RaceIds : races[id] \in RacesAtStart(id)
  /\ runs = [i \in Runs |-> Idle]
  /\ sync_logs = [i \in Runs |-> NoLog]
  /\ settle = NoSettle
  /\ NoSessions
  /\ fin = NoFun
  /\ fout = NoFun

CanStart(i) == runs[i].pc \in {"idle", "done"}

\* scrape_past_history_csv or scrape_recent_history raises: the except block
\* writes ERROR with the translated message
ScrapeFails(i) ==
  /\ CanStart(i)
  /\ \E mode \in {"past", "recent"}, e \in ScrapeErrors :
       except_block(i, [Idle EXCEPT !.mode = mode], e)
  /\ settle' = NoSettle
  /\ UNCHANGED <<tickets, races, fin, fout, slotvars>>

\* sync_and_save_past_history up to _count_new_receipt_ids
PastStart(i) ==
  /\ CanStart(i)
  /\ \E parsed_tickets \in SeqsUpTo(CsvTickets, MaxScrape) :
       LET db_records == db_records_of(parsed_tickets)
           receipt_ids == {r.receipt_unique_id : r \in db_records}
       IN IF parsed_tickets = <<>>
          THEN /\ runs' = [runs EXCEPT ![i] = Returned([Idle EXCEPT !.mode = "past"], None)]
               /\ sync_logs' = [sync_logs EXCEPT ![i] =
                                  [status |-> "COMPLETED", message |-> _build_sync_message(0)]]
          ELSE /\ runs' = [runs EXCEPT ![i] =
                             [Idle EXCEPT !.mode = "past", !.pc = "counted", !.recs = db_records,
                                          !.new_count = _count_new_receipt_ids(tickets, receipt_ids),
                                          !.existing_count = existing_count_of(tickets, receipt_ids)]]
               /\ sync_logs' = [sync_logs EXCEPT ![i] = NoLog]
  /\ settle' = NoSettle
  /\ UNCHANGED <<tickets, races, fin, fout, slotvars>>

\* supabase.table("tickets").upsert(db_records, on_conflict="receipt_unique_id")
PastUpsert(i) ==
  /\ runs[i].mode = "past" /\ runs[i].pc = "counted"
  /\ tickets' = upsert(tickets, runs[i].recs)
  /\ runs' = [runs EXCEPT ![i].pc = "upserted", ![i].upsert_called = TRUE,
                          ![i].added = Cardinality(upsert(tickets, runs[i].recs)) - Cardinality(tickets)]
  /\ settle' = NoSettle
  /\ UNCHANGED <<races, sync_logs, fin, fout, slotvars>>

\* the update of sync_logs that ends a run
WriteCompleted(i) ==
  /\ \/ runs[i].mode = "past" /\ runs[i].pc = "upserted"
     \/ runs[i].mode = "recent" /\ runs[i].pc = "judged"
  /\ sync_logs' = [sync_logs EXCEPT ![i] =
                     [status |-> "COMPLETED", message |-> _build_sync_message(runs[i].new_count)]]
  /\ runs' = [runs EXCEPT ![i] = Returned(runs[i], None)]
  /\ settle' = NoSettle
  /\ UNCHANGED <<tickets, races, fin, fout, slotvars>>

\* the upsert on the tickets table raises: the except block writes ERROR
TicketUpsertFails(i) ==
  /\ \/ runs[i].mode = "past" /\ runs[i].pc = "counted"
     \/ runs[i].mode = "recent" /\ runs[i].pc = "checked" /\ runs[i].insert_records # {}
  /\ except_block(i, runs[i], DbError)
  /\ settle' = NoSettle
  /\ UNCHANGED <<tickets, races, fin, fout, slotvars>>

\* sync_and_save_recent_history up to _count_new_receipt_ids
RecentStart(i) ==
  /\ CanStart(i)
  /\ \E parsed_tickets \in SeqsUpTo(RecentTickets, MaxScrape) :
       LET db_records == db_records_of(parsed_tickets)
           receipt_ids == {r.receipt_unique_id : r \in db_records}
       IN IF db_records = {}
          THEN /\ runs' = [runs EXCEPT ![i] = Returned([Idle EXCEPT !.mode = "recent"], None)]
               /\ sync_logs' = [sync_logs EXCEPT ![i] =
                                  [status |-> "COMPLETED", message |-> _build_sync_message(0)]]
          ELSE /\ runs' = [runs EXCEPT ![i] =
                             [Idle EXCEPT !.mode = "recent", !.pc = "counted", !.recs = db_records,
                                          !.new_count = _count_new_receipt_ids(tickets, receipt_ids),
                                          !.existing_count = existing_count_of(tickets, receipt_ids)]]
               /\ sync_logs' = [sync_logs EXCEPT ![i] = NoLog]
  /\ settle' = NoSettle
  /\ UNCHANGED <<tickets, races, fin, fout, slotvars>>

\* existing_ids = _get_existing_receipt_ids(...); insert_records = the rest
RecentCheck(i) ==
  /\ runs[i].mode = "recent" /\ runs[i].pc = "counted"
  /\ LET existing_ids == _get_existing_receipt_ids(tickets, {r.receipt_unique_id : r \in runs[i].recs})
     IN runs' = [runs EXCEPT ![i].pc = "checked",
                             ![i].insert_records = {r \in runs[i].recs : r.receipt_unique_id \notin existing_ids},
                             ![i].stored = {r.receipt_unique_id : r \in tickets}]
  /\ settle' = NoSettle
  /\ UNCHANGED <<tickets, races, sync_logs, fin, fout, slotvars>>

\* if insert_records: upsert(insert_records, on_conflict="receipt_unique_id")
RecentUpsert(i) ==
  /\ runs[i].mode = "recent" /\ runs[i].pc = "checked"
  /\ IF runs[i].insert_records # {}
     THEN /\ tickets' = upsert(tickets, runs[i].insert_records)
          /\ runs' = [runs EXCEPT ![i].pc = "upserted", ![i].upsert_called = TRUE,
                                  ![i].added = Cardinality(upsert(tickets, runs[i].insert_records))
                                                 - Cardinality(tickets)]
     ELSE /\ tickets' = tickets
          /\ runs' = [runs EXCEPT ![i].pc = "upserted"]
  /\ settle' = NoSettle
  /\ UNCHANGED <<races, sync_logs, fin, fout, slotvars>>

Orders(S) == {o \in [1..Cardinality(S) -> S] : \A a, b \in 1..Cardinality(S) : a # b => o[a] # o[b]}

FoldStart == [tickets |-> tickets, races |-> races, raised |-> FALSE, used |-> {}, raised_at |-> {}]

\* an immediate judgment whose exception reaches the except block of the sync
RecentJudge_failing_the_sync(i) ==
  /\ runs[i].mode = "recent" /\ runs[i].pc = "upserted"
  /\ \E order \in Orders({r.race_id : r \in runs[i].recs}) :
       \E out \in judge_existing_races(FoldStart, order) :
          /\ tickets' = out.tickets
          /\ settle' = [op |-> "judge_existing_races", before |-> tickets, used |-> out.used,
                        raised_at |-> out.raised_at, propagated |-> out.raised,
                        rerun |-> Rerun(out.used)]
          /\ IF out.raised
             THEN except_block(i, runs[i], <<"AttributeError">>)
             ELSE /\ runs' = [runs EXCEPT ![i].pc = "judged"]
                  /\ sync_logs' = sync_logs
  /\ UNCHANGED <<races, fin, fout, slotvars>>

\* the immediate judgment of a recent sync: judge_existing_races(race_ids)
RecentJudge(i) ==
  /\ runs[i].mode = "recent" /\ runs[i].pc = "upserted"
  /\ \E order \in Orders({r.race_id : r \in runs[i].recs}) :
       \E out \in judge_existing_races(FoldStart, order) :
          /\ tickets' = out.tickets
          /\ settle' = [op |-> "judge_existing_races", before |-> tickets, used |-> out.used,
                        raised_at |-> out.raised_at, propagated |-> FALSE,
                        rerun |-> Rerun(out.used)]
          /\ runs' = [runs EXCEPT ![i].pc = "judged", ![i].judge_raised = out.raised]
  /\ UNCHANGED <<races, sync_logs, fin, fout, slotvars>>

\* RaceService.update_results(target_date) for the day of the model's races
UpdateResults ==
  /\ \E order \in Orders(RaceIds), future \in [RaceIds -> BOOLEAN] :
       \E scraped \in [RaceIds -> UNION {{NoResult, Official(id)} : id \in RaceIds}] :
          /\ \A id \in RaceIds : scraped[id] \in {NoResult, Official(id)}
          /\ \E out \in update_results(FoldStart, order, future, scraped) :
               /\ tickets' = out.tickets
               /\ races' = out.races
               /\ settle' = [op |-> "update_results", before |-> tickets, used |-> out.used,
                             raised_at |-> out.raised_at, propagated |-> out.raised,
                             rerun |-> Rerun(out.used)]
  /\ UNCHANGED <<runs, sync_logs, fin, fout, slotvars>>

Next ==
  \/ \E i \in Runs : ScrapeFails(i)
  \/ \E i \in Runs : PastStart(i)
  \/ \E i \in Runs : PastUpsert(i)
  \/ \E i \in Runs : RecentStart(i)
  \/ \E i \in Runs : RecentCheck(i)
  \/ \E i \in Runs : RecentUpsert(i)
  \/ \E i \in Runs : RecentJudge(i)
  \/ \E i \in Runs : WriteCompleted(i)
  \/ \E i \in Runs : TicketUpsertFails(i)
  \/ UpdateResults

Spec == Init /\ [][Next]_vars

(***************************************************************************)
(* Two sync runs started as background tasks of two requests,              *)
(* app/routers/ipat.py: each runs once, the first a recent sync, the       *)
(* second a past or a recent sync, their steps interleaved with each other *)
(* and with settlement runs                                                *)
(***************************************************************************)
Tasks == {1, 2}

InitTwo ==
  /\ tickets = {}
  /\ races = [id \in RaceIds |-> RaceRow("BEFORE", NoResult)]
  /\ runs = [i \in Tasks |-> Idle]
  /\ sync_logs = [i \in Tasks |-> NoLog]
  /\ settle = NoSettle
  /\ NoSessions
  /\ fin = NoFun
  /\ fout = NoFun

\* background_tasks.add_task(sync_and_save_recent_history, ...)
StartRecent(i) == runs[i].pc = "idle" /\ RecentStart(i)

\* background_tasks.add_task(sync_and_save_past_history, ...)
StartPast(i) == runs[i].pc = "idle" /\ i # 1 /\ PastStart(i)

NextTwo ==
  \/ \E i \in Tasks : StartRecent(i)
  \/ \E i \in Tasks : StartPast(i)
  \/ \E i \in Tasks : PastUpsert(i)
  \/ \E i \in Tasks : RecentCheck(i)
  \/ \E i \in Tasks : RecentUpsert(i)
  \/ \E i \in Tasks : RecentJudge(i)
  \/ \E i \in Tasks : WriteCompleted(i)
  \/ UpdateResults

SpecTwo == InitTwo /\ [][NextTwo]_vars

(***************************************************************************)
(* The judgment of one tickets row, for rows and payout tables drawn from  *)
(* the sets below                                                          *)
(***************************************************************************)
T(n) == Zfill(StrOfInt(n), 2)

Row(bet_type, buy_type, content, amount_per_point) ==
  [race_id |-> Race11, bet_type |-> bet_type, buy_type |-> buy_type, content |-> content,
   amount_per_point |-> amount_per_point, total_points |-> 1, total_cost |-> amount_per_point,
   payout |-> 0, status |-> "PENDING", source |-> "IPAT_RECENT",
   receipt_unique_id |-> [head |-> <<>>, json |-> content]]

JudgedBets ==
  {<<"WIN", "NORMAL", Content("NORMAL", FALSE, <<>>, <<>>, << <<StrOfInt(1)>> >>, <<>>, "WIN")>>,
   <<"WIN", "NORMAL", Content("NORMAL", FALSE, <<>>, <<>>, << <<T(2)>> >>, <<>>, "WIN")>>,
   <<"WIN", "NORMAL", Content("NORMAL", FALSE, <<>>, <<>>, << <<T(1)>>, <<T(2)>> >>, <<>>, "WIN")>>,
   <<"EXACTA", "NORMAL", Content("NORMAL", FALSE, <<>>, <<>>, << <<T(5), T(3)>> >>, <<>>, "EXACTA")>>,
   <<"QUINELLA", "BOX", Content("BOX", FALSE, <<>>, <<>>, << <<T(1), T(2), T(3)>> >>, <<>>, "QUINELLA")>>,
   <<"QUINELLA_PLACE", "BOX", Content("BOX", FALSE, <<>>, <<>>, << <<T(1), T(2), T(3)>> >>, <<>>, "QUINELLA_PLACE")>>,
   <<"TRIFECTA", "BOX", Content("BOX", FALSE, <<>>, <<>>, << <<T(3), T(5), T(8)>> >>, <<>>, "TRIFECTA")>>,
   <<"QUINELLA", "BOX", Content("BOX", FALSE, <<>>, <<>>, <<>>, <<>>, "QUINELLA")>>,
   <<"TRIO", "FORMATION", Content("FORMATION", FALSE, <<>>, <<>>, << <<T(1)>>, <<T(2)>>, <<T(3), T(4)>> >>, <<>>, "TRIO")>>,
   <<"TRIFECTA", "NAGASHI", Content("NAGASHI", FALSE, <<T(5)>>, <<T(3), T(8)>>, <<>>, <<1>>, "TRIFECTA")>>,
   <<"TRIFECTA", "NAGASHI", Content("NAGASHI", FALSE, <<T(5)>>, <<T(3), T(8)>>, <<>>, <<2>>, "TRIFECTA")>>,
   <<"EXACTA", "NAGASHI", Content("NAGASHI", FALSE, <<T(5)>>, <<T(3), T(8)>>, <<>>, <<2>>, "EXACTA")>>,
   <<"TRIFECTA", "NAGASHI", Content("NAGASHI", FALSE, <<T(5)>>, <<T(3), T(8)>>, <<>>, <<>>, "TRIFECTA")>>,
   <<"TRIFECTA", "NAGASHI", Content("NAGASHI", TRUE, <<T(5)>>, <<T(3), T(8)>>, <<>>, <<>>, "TRIFECTA")>>,
   <<"unknown", "NORMAL", Content("NORMAL", FALSE, <<>>, <<>>, << <<T(1)>> >>, <<>>, "unknown")>>,
   <<"WIN", "ODDS", Content("ODDS", FALSE, <<>>, <<>>, << <<T(1)>> >>, <<>>, "WIN")>>}

JudgedRows == {Row(b[1], b[2], b[3], a) : b \in JudgedBets, a \in {100, 150}}

Item(horse, money) == [horse |-> horse, money |-> money]

JudgedPayouts ==
  {None,
   PayoutData([k \in {} |-> <<>>]),
   PayoutData([k \in {"WIN"} |-> <<Item(<<1>>, 250)>>]),
   PayoutData([k \in {"WIN"} |-> <<Item(<<1>>, 250), Item(<<2>>, 255)>>]),
   PayoutData([k \in {"QUINELLA", "QUINELLA_PLACE"} |->
      IF k = "QUINELLA" THEN <<Item(<<1, 2>>, 540)>>
      ELSE <<Item(<<1, 2>>, 180), Item(<<1, 3>>, 255), Item(<<2, 3>>, 310)>>]),
   PayoutData([k \in {"EXACTA", "TRIFECTA", "TRIO"} |->
      IF k = "EXACTA" THEN <<Item(<<5, 3>>, 905)>>
      ELSE IF k = "TRIFECTA" THEN <<Item(<<5, 3, 8>>, 12345)>>
      ELSE <<Item(<<3, 5, 8>>, 700)>>]),
   PayoutData([k \in {"EXACTA", "TRIFECTA", "TRIO"} |->
      IF k = "EXACTA" THEN <<Item(<<3, 5>>, 905)>>
      ELSE IF k = "TRIFECTA" THEN <<Item(<<3, 5, 8>>, 12345)>>
      ELSE <<Item(<<1, 2, 4>>, 700)>>])}

SysIdle ==
  /\ tickets = {}
  /\ races = [id \in RaceIds |-> RaceRow("BEFORE", NoResult)]
  /\ runs = [i \in Runs |-> Idle]
  /\ sync_logs = [i \in Runs |-> NoLog]
  /\ settle = NoSettle
  /\ NoSessions

InitJudge ==
  /\ SysIdle
  /\ fin \in {[t |-> "judge", row |-> r, payout_data |-> p] : r \in JudgedRows, p \in JudgedPayouts}
  /\ fout = NoFun

\* judge_ticket on the Ticket made of the row, its "HIT" stored as "WIN"
Judge ==
  /\ fin.t = "judge" /\ fout = NoFun
  /\ fout' = [t |-> "judged", r |-> judge_row(fin.row, fin.payout_data)]
  /\ UNCHANGED <<sysvars, fin>>

SpecJudge == InitJudge /\ [][Judge]_vars

(***************************************************************************)
(* Settlement of one ticket: what the specification states of it.  The     *)
(* expansion a ticket stands for is that of its stored content, read as    *)
(* the mapping the tickets table holds.                                    *)
(***************************************************************************)
Judged == fout.t = "judged"

Expansion(row) == _expand_combinations(row.bet_type, row.buy_type, Dict(row.content))

Entries(row, payout_data) ==
  IF payout_data = None THEN <<>> ELSE payout_items_of(payout_data, row.bet_type)

PositionalPath(row) ==
  /\ row.buy_type = "NAGASHI"
  /\ ~row.content.multi
  /\ row.content.positions # <<>>
  /\ IsOrderedType(row.bet_type)

\* ordered tuple equality for EXACTA and TRIFECTA, set equality otherwise
Matches(row, horse) ==
  \E k \in 1..Len(Expansion(row).v) :
     IF IsOrderedType(row.bet_type) THEN Expansion(row).v[k] = horse
     ELSE SetOf(Expansion(row).v[k]) = SetOf(horse)

KnownBetTypes ==
  {"WIN", "PLACE", "BRACKET_QUINELLA", "QUINELLA", "QUINELLA_PLACE", "EXACTA", "TRIO", "TRIFECTA"}

KnownMethods == {"NORMAL", "BOX", "NAGASHI", "FORMATION"}

\* C6: a ticket the Expander cannot handle (unknown bet type, unknown buying
\* method, or a BOX without a selection group) is settled LOSE with payout 0;
\* its settlement raises nothing.
C6_UnhandledTicketLoses ==
  (/\ Judged
   /\ \/ fin.row.bet_type \notin KnownBetTypes
      \/ fin.row.buy_type \notin KnownMethods
      \/ fin.row.buy_type = "BOX" /\ fin.row.content.selections = <<>>)
  => fout.r = Ok([status |-> "LOSE", payout |-> 0])

\* C7: on the general path a ticket is WIN exactly when some payout entry of
\* its bet type matches some expanded combination, and LOSE with payout 0
\* otherwise, an empty or absent payout list included.
C7_WinIffSomeEntryMatches ==
  (/\ Judged
   /\ ~PositionalPath(fin.row)
   /\ Expansion(fin.row).ok)
  => /\ fout.r.ok
     /\ LET items == Entries(fin.row, fin.payout_data)
            match == \E i \in 1..Len(items) : Matches(fin.row, items[i].horse)
        IN IF match THEN fout.r.v.status = "WIN"
           ELSE fout.r.v = [status |-> "LOSE", payout |-> 0]

\* C8: the payout of a winning ticket is the sum, over the matching payout
\* entries taken once each, of floor(amount_per_point * payout_per_100 / 100).
C8_PayoutIsSumOverMatches ==
  (/\ Judged
   /\ ~PositionalPath(fin.row)
   /\ Expansion(fin.row).ok
   /\ \E i \in 1..Len(Entries(fin.row, fin.payout_data)) :
         Matches(fin.row, Entries(fin.row, fin.payout_data)[i].horse))
  => /\ fout.r.ok
     /\ LET items == Entries(fin.row, fin.payout_data)
        IN fout.r.v.payout =
             SumSeq([i \in 1..Len(items) |->
                       IF Matches(fin.row, items[i].horse)
                       THEN (fin.row.amount_per_point * items[i].money) \div 100
                       ELSE 0])

\* C9: a NAGASHI ticket with multi false and positions on an ordered bet type
\* hits a payout entry exactly when every axis horse stands in its slot and
\* every other slot holds a partner.
C9_PositionalNagashi ==
  (/\ Judged
   /\ PositionalPath(fin.row)
   /\ Len(Entries(fin.row, fin.payout_data)) = 1)
  => /\ fout.r.ok
     /\ LET W == Entries(fin.row, fin.payout_data)[1].horse
            c == fin.row.content
            hit == /\ \A k \in 1..Len(c.axis) :
                        /\ c.positions[k] \in 1..Len(W)
                        /\ W[c.positions[k]] = IntOfStr(c.axis[k])
                   /\ \A j \in 1..Len(W) :
                        j \notin SetOf(c.positions)
                          => W[j] \in {IntOfStr(c.partners[k]) : k \in 1..Len(c.partners)}
        IN fout.r.v.status = IF hit THEN "WIN" ELSE "LOSE"

(***************************************************************************)
(* The Normalizer on two writings of one bet.  A bet is given by its       *)
(* numbers; a writing chooses the date separators, the digits and the      *)
(* whitespace of receipt_no and line_no, and the width of the horse        *)
(* numbers.                                                                *)
(***************************************************************************)
ToFw(s) == [i \in 1..Len(s) |-> IF IsHw(s[i]) THEN FwDigits[DigitVal(s[i]) + 1] ELSE s[i]]

WriteDate(y, m, d, style) ==
  CASE style = "plain" -> y \o m \o d
    [] style = "slash" -> y \o <<"/">> \o m \o <<"/">> \o d
    [] style = "dash" -> y \o <<"-">> \o m \o <<"-">> \o d
    [] style = "kanji" -> y \o <<"NEN">> \o m \o <<"GATSU">> \o d \o <<"NICHI">>

WriteReceipt(r, style) ==
  CASE style = "plain" -> PyStr(r)
    [] style = "spaced" -> PyStr(<<" ">> \o r \o <<"IDSP">>)
    [] style = "fullwidth" -> PyStr(ToFw(r))

WriteLine(n, style) ==
  CASE style = "int" -> PyInt(n)
    [] style = "plain" -> PyStr(StrOfInt(n))
    [] style = "padded" -> PyStr(Zfill(StrOfInt(n), 2))
    [] style = "spaced" -> PyStr(<<" ">> \o StrOfInt(n) \o <<" ">>)
    [] style = "fullwidth" -> PyStr(ToFw(Zfill(StrOfInt(n), 2)))

WriteHorses(l, w) == [i \in 1..Len(l) |-> Zfill(StrOfInt(l[i]), w)]

Styles ==
  [date : {"plain", "slash", "dash", "kanji"},
   receipt : {"plain", "spaced", "fullwidth"},
   line : {"int", "plain", "padded", "spaced", "fullwidth"},
   horse : {1, 2}]

NormBets ==
  {[line |-> 1, bet_type |-> "QUINELLA", method |-> "BOX",
    axis |-> <<>>, partners |-> <<>>, selections |-> << <<10, 2, 3>> >>, positions |-> <<>>],
   [line |-> 12, bet_type |-> "TRIFECTA", method |-> "NAGASHI",
    axis |-> <<5>>, partners |-> <<8, 3>>, selections |-> <<>>, positions |-> <<1>>]}

\* the bet b as the parsers hand it to _map_ticket_to_db_format, written in style st
TicketData(b, st) ==
  [raw |-> [race_date_str |-> PyStr(WriteDate(<<"2", "0", "2", "3">>, <<"1", "2">>, <<"2", "4">>, st.date)),
            race_place |-> "Nakayama",
            race_number_str |-> PyStr(<<"1", "1">>),
            receipt_no |-> WriteReceipt(<<"0", "0", "1", "2">>, st.receipt),
            line_no |-> WriteLine(b.line, st.line)],
   parsed |-> [bet_type |-> b.bet_type, buy_type |-> b.method,
               content |-> Content(b.method, FALSE, WriteHorses(b.axis, st.horse),
                                   WriteHorses(b.partners, st.horse),
                                   [i \in 1..Len(b.selections) |-> WriteHorses(b.selections[i], st.horse)],
                                   b.positions, b.bet_type),
               amount_per_point |-> 100, total_points |-> 1, total_cost |-> 100,
               payout |-> 0, status |-> "PENDING", source |-> "IPAT_RECENT"]]

InitNorm ==
  /\ SysIdle
  /\ fin \in {[t |-> "map", a |-> TicketData(b, s1), b |-> TicketData(b, s2)] :
                b \in NormBets, s1 \in Styles, s2 \in Styles}
  /\ fout = NoFun

\* _map_ticket_to_db_format applied to both writings
Map ==
  /\ fin.t = "map" /\ fout = NoFun
  /\ fout' = [t |-> "mapped", a |-> _map_ticket_to_db_format(fin.a),
              b |-> _map_ticket_to_db_format(fin.b)]
  /\ UNCHANGED <<sysvars, fin>>

SpecNorm == InitNorm /\ [][Map]_vars

\* C10: two raw records of one bet that differ only in representation (horse
\* numbers "1" or "01", line_no "01" or 1, full-width or half-width digits and
\* surrounding whitespace in receipt_no and line_no, date separators) are
\* given the same fingerprint.
C10_RepresentationIndependent ==
  fout.t = "mapped" => fout.a.receipt_unique_id = fout.b.receipt_unique_id

\* reached: line_no "01" against 1, with a different date, receipt and horse writing
C10_Witness ==
  /\ fout.t = "mapped"
  /\ fin.a.raw.line_no = PyStr(<<"0", "1">>) /\ fin.b.raw.line_no = PyInt(1)
  /\ fin.a.raw.race_date_str # fin.b.raw.race_date_str
  /\ fin.a.raw.receipt_no # fin.b.raw.receipt_no
  /\ fin.a.parsed.content # fin.b.parsed.content
  /\ fout.a.content = fout.b.content

(***************************************************************************)
(* The Normalizer on two tickets of one horse content.  A ticket is given  *)
(* by its date, its receipt number (a digit string, or none) and its line  *)
(* (a number, or none); it is written plainly, as the recent page gives    *)
(* it, or with the kanji date, full-width digits and whitespace.           *)
(***************************************************************************)
KeyDates == {<<"2", "4">>, <<"2", "5">>}
KeyReceipts == {None, PyStr(<<"1">>), PyStr(<<"1", "1">>), PyStr(<<"0", "0", "1", "2">>)}
KeyLines == {None, PyInt(1), PyInt(2), PyInt(11), PyInt(12)}
Keys == [d : KeyDates, r : KeyReceipts, l : KeyLines]

\* the ticket k as _map_ticket_to_db_format gets it; a receipt or line that
\* is none is a missing key when written plainly and a None otherwise
KeyTicket(k, fancy) ==
  LET present == {"race_date_str", "race_place", "race_number_str"}
                   \cup (IF k.r = None /\ ~fancy THEN {} ELSE {"receipt_no"})
                   \cup (IF k.l = None /\ ~fancy THEN {} ELSE {"line_no"})
  IN [raw |-> [f \in present |->
                 CASE f = "race_date_str" ->
                        PyStr(WriteDate(<<"2", "0", "2", "3">>, <<"1", "2">>, k.d,
                                        IF fancy THEN "kanji" ELSE "plain"))
                   [] f = "race_place" -> "Nakayama"
                   [] f = "race_number_str" -> PyStr(<<"1", "1">>)
                   [] f = "receipt_no" ->
                        IF k.r = None THEN None
                        ELSE IF fancy THEN PyStr(<<"IDSP">> \o ToFw(k.r.v) \o <<" ">>) ELSE k.r
                   [] f = "line_no" ->
                        IF k.l = None THEN None
                        ELSE IF fancy THEN PyStr(ToFw(Zfill(StrOfInt(k.l.v), 2))) ELSE k.l],
      parsed |-> [bet_type |-> "QUINELLA", buy_type |-> "BOX",
                  content |-> Content("BOX", FALSE, <<>>, <<>>, << <<T(1), T(2), T(3)>> >>, <<>>, "QUINELLA"),
                  amount_per_point |-> 100, total_points |-> 3, total_cost |-> 300,
                  payout |-> 0, status |-> "PENDING", source |-> "IPAT_RECENT", mode |-> "REAL"]]

InitKey ==
  /\ SysIdle
  /\ fin \in {[t |-> "map", ka |-> ka, kb |-> kb, a |-> KeyTicket(ka, fa), b |-> KeyTicket(kb, fb)] :
                ka \in Keys, kb \in Keys, fa \in BOOLEAN, fb \in BOOLEAN}
  /\ fout = NoFun

SpecKey == InitKey /\ [][Map]_vars

\* C11: two tickets of one horse content that differ in their date, or that
\* are different lines of one receipt, get different fingerprints; tickets
\* with one fingerprint have the same date, receipt number and line number.
C11_KeyDeterminesFingerprint ==
  fout.t = "mapped" =>
    /\ fin.ka.d # fin.kb.d => fout.a.receipt_unique_id # fout.b.receipt_unique_id
    /\ (fin.ka.r = fin.kb.r /\ fin.ka.l # fin.kb.l)
          => fout.a.receipt_unique_id # fout.b.receipt_unique_id
    /\ fout.a.receipt_unique_id = fout.b.receipt_unique_id => fin.ka = fin.kb

\* reached: the same receipt, line and horses on two days, written differently
C11_Witness ==
  /\ fout.t = "mapped"
  /\ fin.ka.d # fin.kb.d /\ fin.ka.r = fin.kb.r /\ fin.ka.l = fin.kb.l
  /\ fin.ka.r # None /\ fin.ka.l # None
  /\ fin.a.raw.receipt_no # fin.b.raw.receipt_no
  /\ fout.a.content = fout.b.content
  /\ fout.a.receipt_unique_id # fout.b.receipt_unique_id

(***************************************************************************)
(* The Normalizer on one raw record: the record of the mapping test with   *)
(* its date, course, race number, keys, horse tokens and amounts varied    *)
(***************************************************************************)
OneContents ==
  {Content("NAGASHI", FALSE, <<StrOfInt(8), StrOfInt(3)>>, <<StrOfInt(12), StrOfInt(5), StrOfInt(1)>>,
           <<>>, <<>>, "TRIFECTA"),
   Content("NAGASHI", FALSE, <<StrOfInt(8), StrOfInt(3)>>, <<StrOfInt(12), StrOfInt(5), StrOfInt(1)>>,
           <<>>, <<1, 2>>, "TRIFECTA"),
   Content("FORMATION", FALSE, <<>>, <<>>,
           << <<StrOfInt(9), StrOfInt(2)>>, <<StrOfInt(1)>>, <<StrOfInt(10), StrOfInt(4)>> >>, <<>>, "TRIFECTA"),
   Content("BOX", FALSE, <<>>, <<>>, << <<<<"x">>, StrOfInt(3), <<" ", "1">>>> >>, <<>>, "QUINELLA"),
   Content("BOX", FALSE, <<>>, <<>>, << <<<<"F7">>, StrOfInt(123)>> >>, <<>>, "QUINELLA"),
   [type |-> "WIN", selections |-> << <<StrOfInt(1)>> >>]}

\* the amount fields of the record; a field left out is a missing key
OneAmounts ==
  {[amount_per_point |-> 100, total_cost |-> 1000],
   [amount_per_point |-> 0, total_cost |-> 1000],
   [amount_per_point |-> 100, total_cost |-> 250],
   [amount_per_point |-> 100, total_cost |-> 300, total_points |-> 3],
   [amount_per_point |-> 100, total_cost |-> 1000, total_points |-> 5],
   [amount_per_point |-> 100, total_cost |-> 1000, total_points |-> 0],
   [total_cost |-> 1000]}

OneInputs ==
  [date : {"plain", "slash"}, place : {"Nakayama", "Tokyo", "Unknown"},
   race : {PyStr(<<"1", "1">>), PyStr(<<"5">>), PyInt(11)}, keyed : BOOLEAN,
   content : OneContents, amounts : OneAmounts]

OneTicket(x) ==
  LET rawkeys == {"race_date_str", "race_place", "race_number_str"}
                   \cup (IF x.keyed THEN {"receipt_no", "line_no"} ELSE {})
      parsedkeys == {"bet_type", "buy_type", "content", "payout", "status"} \cup DOMAIN x.amounts
  IN [raw |-> [f \in rawkeys |->
                 CASE f = "race_date_str" ->
                        PyStr(WriteDate(<<"2", "0", "2", "3">>, <<"1", "2">>, <<"2", "4">>, x.date))
                   [] f = "race_place" -> x.place
                   [] f = "race_number_str" -> x.race
                   [] f = "receipt_no" -> PyStr(<<"1", "2", "3", "4", "5", "6", "7", "8">>)
                   [] f = "line_no" -> PyInt(1)],
      parsed |-> [f \in parsedkeys |->
                 CASE f = "bet_type" -> x.content.type
                   [] f = "buy_type" -> IF "method" \in DOMAIN x.content THEN x.content.method ELSE "NORMAL"
                   [] f = "content" -> x.content
                   [] f = "payout" -> 0
                   [] f = "status" -> "PENDING"
                   [] OTHER -> x.amounts[f]]]

InitOne ==
  /\ SysIdle
  /\ fin \in {[t |-> "map1", x |-> x, rec |-> OneTicket(x)] : x \in OneInputs}
  /\ fout = NoFun

\* _map_ticket_to_db_format applied to the record
MapOne ==
  /\ fin.t = "map1" /\ fout = NoFun
  /\ fout' = [t |-> "mapped1", r |-> try_map_ticket_to_db_format(fin.rec)]
  /\ UNCHANGED <<sysvars, fin>>

SpecOne == InitOne /\ [][MapOne]_vars

Mapped1 == fout.t = "mapped1" /\ fout.r.ok

\* the tokens as the Normalizer pads them, in the order the record gives them
Padded(lst) == [i \in 1..Len(lst) |-> process_token(lst[i])]

\* ascending in the order of Python strings, which on two-digit tokens is the
\* order of the numbers
Ascending(lst) == \A i, j \in 1..Len(lst) : i < j => ~StrLess(lst[j], lst[i])

Count(lst, x) == Cardinality({i \in 1..Len(lst) : lst[i] = x})

\* the same tokens, each as many times
Reordered(lst, of) ==
  /\ Len(lst) = Len(of)
  /\ \A x \in SetOf(lst) \cup SetOf(of) : Count(lst, x) = Count(of, x)

\* C12: normalization reorders horse tokens only where order carries no
\* meaning: partners comes out ascending; axis comes out ascending when
\* positions is empty and in its given order otherwise, axis[i] staying with
\* positions[i]; each selections group comes out ascending, the groups as many
\* and in the order given.
C12_ReordersOnlyUnordered ==
  Mapped1 =>
    LET c == fin.rec.parsed.content
        n == fout.r.v.content
    IN /\ DOMAIN n = DOMAIN c
       /\ "partners" \in DOMAIN c =>
             Ascending(n.partners) /\ Reordered(n.partners, Padded(c.partners))
       /\ "axis" \in DOMAIN c =>
             IF c.positions = <<>>
             THEN Ascending(n.axis) /\ Reordered(n.axis, Padded(c.axis))
             ELSE n.axis = Padded(c.axis) /\ n.positions = c.positions
       /\ "selections" \in DOMAIN c =>
             /\ Len(n.selections) = Len(c.selections)
             /\ \A i \in 1..Len(c.selections) :
                   /\ Ascending(n.selections[i])
                   /\ Reordered(n.selections[i], Padded(c.selections[i]))

\* reached: axis 8, 3 with positions 1, 2 is stored in that order, its
\* partners 12, 5, 1 sorted; and a three-group FORMATION is reached as well
C12_Witness ==
  /\ Mapped1
  /\ "axis" \in DOMAIN fin.rec.parsed.content
  /\ fin.rec.parsed.content.positions = <<1, 2>>
  /\ fout.r.v.content.axis = <<T(8), T(3)>>
  /\ fout.r.v.content.partners = <<T(1), T(5), T(12)>>

TwoDigits(tok) == Len(tok) = 2 /\ IsHw(tok[1]) /\ IsHw(tok[2])

\* C13: in every canonical bet the Normalizer produces, every token of axis,
\* partners and each selections group is a two-digit zero-padded string,
\* whatever tokens the raw record held.
C13_TokensTwoDigits ==
  Mapped1 =>
    LET n == fout.r.v.content
    IN /\ "axis" \in DOMAIN n => \A i \in 1..Len(n.axis) : TwoDigits(n.axis[i])
       /\ "partners" \in DOMAIN n => \A i \in 1..Len(n.partners) : TwoDigits(n.partners[i])
       /\ "selections" \in DOMAIN n =>
             \A i \in 1..Len(n.selections) :
                \A j \in 1..Len(n.selections[i]) : TwoDigits(n.selections[i][j])

\* C14: the Normalizer never raises: for every raw record (unknown course,
\* non-numeric horse tokens, missing receipt_no or line_no, a numeric race
\* number, amount or point fields zero or absent) it returns a canonical bet
\* with a fingerprint.
C14_NeverRaises ==
  fout.t = "mapped1" => fout.r.ok /\ "receipt_unique_id" \in DOMAIN fout.r.v

\* C18: race_id is the 8-digit date, the 2-digit course code and the race
\* number padded to 2 digits; 20231224, Nakayama, 11 gives 202312240611, and
\* a course outside the table gives code 00 and no error.
C18_RaceId ==
  /\ Mapped1 =>
       fout.r.v.race_id =
         <<"2", "0", "2", "3", "1", "2", "2", "4">>
           \o (CASE fin.x.place = "Nakayama" -> <<"0", "6">>
                  [] fin.x.place = "Tokyo" -> <<"0", "5">>
                  [] OTHER -> <<"0", "0">>)
           \o (IF fin.x.race.v = <<"5">> THEN <<"0", "5">> ELSE fin.x.race.v)
  /\ (fout.t = "mapped1" /\ fin.x.race.t = "str" /\ "amount_per_point" \in DOMAIN fin.x.amounts)
       => fout.r.ok

\* reached: the race 5 of an unknown course, its date written with slashes
C18_Witness ==
  /\ Mapped1
  /\ fin.x.place = "Unknown" /\ fin.x.race = PyStr(<<"5">>) /\ fin.x.date = "slash"
  /\ fout.r.v.race_id = <<"2", "0", "2", "3", "1", "2", "2", "4", "0", "0", "0", "5">>

\* C19: when the record supplies no total_points the Normalizer sets it to
\* total_cost \div amount_per_point, and to 0 when amount_per_point is 0
\* (cost 1000 at 100 gives 10); a supplied total_points is kept as given.
C19_TotalPoints ==
  Mapped1 =>
    LET a == fin.x.amounts
    IN fout.r.v.total_points =
         IF "total_points" \in DOMAIN a THEN a.total_points
         ELSE IF a.amount_per_point = 0 THEN 0
         ELSE a.total_cost \div a.amount_per_point

\* C19 as the code has it: a record that supplies no total_points, or
\* supplies 0, gets total_cost \div amount_per_point when amount_per_point is
\* positive and 0 otherwise; a supplied total_points other than 0 is kept.
C19_TotalPointsZeroIsAbsent ==
  Mapped1 =>
    LET a == fin.x.amounts
    IN fout.r.v.total_points =
         IF "total_points" \in DOMAIN a /\ a.total_points # 0 THEN a.total_points
         ELSE IF a.amount_per_point > 0 THEN a.total_cost \div a.amount_per_point
         ELSE 0

\* reached: no total_points, cost 1000 at 100 per point, 10 points stored
C19_Witness ==
  /\ Mapped1
  /\ fin.x.amounts = [amount_per_point |-> 100, total_cost |-> 1000]
  /\ fout.r.v.total_points = 10

\* the fields of a canonical bet: what the tickets table stores of a bet
CanonicalBetFields ==
  {"user_id", "race_id", "bet_type", "buy_type", "content", "amount_per_point", "total_points",
   "total_cost", "payout", "status", "source", "mode", "receipt_unique_id"}

\* C20: a canonical bet whose total_cost differs from amount_per_point times
\* total_points carries a mark of the mismatch, and its amount_per_point and
\* total_cost are those of the raw record.
C20_MismatchFlagged ==
  (Mapped1 /\ fout.r.v.total_cost # fout.r.v.amount_per_point * fout.r.v.total_points)
  => /\ DOMAIN fout.r.v \ CanonicalBetFields # {}
     /\ fout.r.v.total_cost = fin.x.amounts.total_cost
     /\ fout.r.v.amount_per_point = fin.x.amounts.amount_per_point

(***************************************************************************)
(* The Combination Expander on one bet: _expand_combinations on a bet      *)
(* type, a buying method and a content given as the mapping its signature  *)
(* declares                                                                *)
(***************************************************************************)
BetTypes ==
  {"WIN", "PLACE", "BRACKET_QUINELLA", "QUINELLA", "QUINELLA_PLACE", "EXACTA", "TRIO", "TRIFECTA",
   "unknown"}

Tokens(horses) == [i \in 1..Len(horses) |-> StrOfInt(horses[i])]

BoxPools == {<<>>, <<3>>, <<3, 5>>, <<5, 3, 8>>, <<1, 2, 3, 4>>, <<7, 1, 4, 2, 9>>}

FormationGroups ==
  {<<>>, << <<5>> >>, << <<1>>, <<2>>, <<3, 4>> >>, << <<1, 2>>, <<1, 3>> >>,
   << <<1, 2>>, <<>>, <<3>> >>, << <<1, 2, 3>>, <<4, 5>>, <<6, 7, 8>> >>}

NagashiAxes == {<<>>, <<5>>, <<5, 1>>, <<5, 1, 9>>}
NagashiPartners == {<<>>, <<3>>, <<3, 8>>, <<8, 3, 2>>, <<2, 3, 7, 8>>}

ExpandInputs ==
  {[bet_type |-> b, method |-> "BOX",
    content |-> Content("BOX", FALSE, <<>>, <<>>, <<Tokens(pool)>>, <<>>, b)] :
      b \in BetTypes, pool \in BoxPools}
  \cup {[bet_type |-> b, method |-> "FORMATION",
         content |-> Content("FORMATION", FALSE, <<>>, <<>>,
                             [i \in 1..Len(g) |-> Tokens(g[i])], <<>>, b)] :
           b \in {"WIN", "EXACTA", "TRIO", "TRIFECTA"}, g \in FormationGroups}
  \cup {[bet_type |-> b, method |-> "NAGASHI",
         content |-> Content("NAGASHI", m, Tokens(a), Tokens(ps), <<>>, <<>>, b)] :
           b \in BetTypes, a \in NagashiAxes, ps \in NagashiPartners, m \in BOOLEAN}
  \cup {[bet_type |-> b, method |-> "NORMAL",
         content |-> Content("NORMAL", FALSE, <<>>, <<>>, <<Tokens(pool)>>, <<>>, b)] :
           b \in {"WIN", "EXACTA"}, pool \in {<<3>>, <<3, 5>>}}

InitExpand ==
  /\ SysIdle
  /\ fin \in {[t |-> "expand", bet_type |-> x.bet_type, method |-> x.method, content |-> x.content] :
                x \in ExpandInputs}
  /\ fout = NoFun

\* _expand_combinations(bet_type, method, content)
Expand ==
  /\ fin.t = "expand" /\ fout = NoFun
  /\ fout' = [t |-> "expanded",
              r |-> _expand_combinations(fin.bet_type, fin.method, Dict(fin.content))]
  /\ UNCHANGED <<sysvars, fin>>

SpecExpand == InitExpand /\ [][Expand]_vars

Expanded(method) == fout.t = "expanded" /\ fin.method = method

Ints(tokens) == [i \in 1..Len(tokens) |-> IntOfStr(tokens[i])]

\* the sequences of r different members of S
Arrangements(S, r) == {t \in [1..r -> S] : \A i, j \in 1..r : i # j => t[i] # t[j]}

\* the r-member subsets of S
Subsets(S, r) == {X \in SUBSET S : Cardinality(X) = r}

NoRepeat(res) == \A i, j \in 1..Len(res) : i # j => res[i] # res[j]

Ordered(bet_type) == bet_type \in {"EXACTA", "TRIFECTA"}

\* C15: BOX over a pool of n distinct horses returns exactly the permutations
\* of size r for EXACTA and TRIFECTA and exactly the combinations of size r
\* for the other bet types, none repeated: n(n-1)(n-2) for TRIFECTA, C(n,3)
\* for TRIO.
C15_BoxExpansion ==
  Expanded("BOX") =>
    /\ fout.r.ok
    /\ LET pool == SetOf(Ints(fin.content.selections[1]))
           n == Cardinality(pool)
           r == _get_combination_r(fin.bet_type)
           res == fout.r.v
       IN /\ NoRepeat(res)
          /\ IF Ordered(fin.bet_type)
             THEN SetOf(res) = Arrangements(pool, r)
             ELSE /\ \A k \in 1..Len(res) : Len(res[k]) = r
                  /\ {SetOf(res[k]) : k \in 1..Len(res)} = Subsets(pool, r)
                  /\ Len(res) = Cardinality(Subsets(pool, r))
          /\ fin.bet_type = "TRIFECTA" => Len(res) = n * (n - 1) * (n - 2)
          /\ fin.bet_type = "TRIO" => 6 * Len(res) = n * (n - 1) * (n - 2)

\* reached: a TRIFECTA box of four horses, 24 combinations
C15_Witness ==
  /\ Expanded("BOX") /\ fout.r.ok
  /\ fin.bet_type = "TRIFECTA" /\ Len(fin.content.selections[1]) = 4
  /\ Len(fout.r.v) = 24

RECURSIVE Product(_)
Product(sizes) == IF sizes = <<>> THEN 1 ELSE Head(sizes) * Product(Tail(sizes))

\* C16: FORMATION returns exactly the Cartesian product of the selection
\* groups in index order, the candidate of slot i+1 at index i of each tuple;
\* there are as many tuples as the product of the group sizes.
C16_FormationExpansion ==
  Expanded("FORMATION") =>
    /\ fout.r.ok
    /\ LET groups == [i \in 1..Len(fin.content.selections) |-> Ints(fin.content.selections[i])]
           res == fout.r.v
       IN /\ Len(res) = Product([i \in 1..Len(groups) |-> Len(groups[i])])
          /\ \A k \in 1..Len(res) :
                /\ Len(res[k]) = Len(groups)
                /\ \A i \in 1..Len(groups) : res[k][i] \in SetOf(groups[i])
          /\ NoRepeat(res)

\* reached: groups of 3, 2 and 3 candidates, 18 tuples
C16_Witness ==
  /\ Expanded("FORMATION") /\ fout.r.ok
  /\ Len(fin.content.selections) = 3 /\ Len(fin.content.selections[2]) = 2
  /\ Len(fout.r.v) = 18

\* C17: NAGASHI with empty positions: every combination contains all axis
\* horses; for unordered types the expansion is axis with S for every
\* (r - |axis|)-subset S of partners; for EXACTA with one axis horse, (axis, p)
\* for each partner p; for TRIFECTA, (a, p, q) for every ordered pair of
\* distinct partners with one axis horse and (a1, a2, p) for each partner with
\* two; with multi on an ordered type, every permutation of each axis with S.
C17_NagashiExpansion ==
  (Expanded("NAGASHI") /\ fin.content.positions = <<>>) =>
    /\ fout.r.ok
    /\ LET axis == Ints(fin.content.axis)
           partners == SetOf(Ints(fin.content.partners))
           r == _get_combination_r(fin.bet_type)
           res == fout.r.v
           bases == {SetOf(axis) \cup S : S \in Subsets(partners, r - Len(axis))}
       IN /\ \A k \in 1..Len(res) : SetOf(axis) \subseteq SetOf(res[k])
          /\ ~Ordered(fin.bet_type) =>
                /\ {SetOf(res[k]) : k \in 1..Len(res)} = bases
                /\ Len(res) = Cardinality(bases)
                /\ \A k \in 1..Len(res) : Len(res[k]) = r
          /\ (Ordered(fin.bet_type) /\ fin.content.multi) =>
                SetOf(res) = UNION {Arrangements(B, r) : B \in bases}
          /\ (fin.bet_type = "EXACTA" /\ ~fin.content.multi /\ Len(axis) = 1) =>
                /\ SetOf(res) = {<<axis[1], p>> : p \in partners}
                /\ NoRepeat(res)
          /\ (fin.bet_type = "TRIFECTA" /\ ~fin.content.multi /\ Len(axis) = 1) =>
                /\ SetOf(res) = {<<axis[1], p, q>> : p \in partners, q \in partners} \
                                  {<<axis[1], p, p>> : p \in partners}
                /\ NoRepeat(res)
          /\ (fin.bet_type = "TRIFECTA" /\ ~fin.content.multi /\ Len(axis) = 2) =>
                /\ SetOf(res) = {<<axis[1], axis[2], p>> : p \in partners}
                /\ NoRepeat(res)

\* reached: TRIFECTA with one axis horse and three partners, six combinations,
\* the axis horse first in each
C17_Witness ==
  /\ Expanded("NAGASHI") /\ fout.r.ok
  /\ fin.bet_type = "TRIFECTA" /\ ~fin.content.multi
  /\ Len(fin.content.axis) = 1 /\ Len(fin.content.partners) = 3
  /\ Len(fout.r.v) = 6
  /\ \A k \in 1..6 : fout.r.v[k][1] = 5

(***************************************************************************)
(* What a ticket covers before and after it is stored: the expansion of    *)
(* the content as scraped and of the content _normalize_horse_numbers      *)
(* makes of it                                                             *)
(***************************************************************************)
\* the bets of the Expander, and NORMAL bets on the ordered bet types written
\* in the order bought
CoverInputs ==
  ExpandInputs
  \cup {[bet_type |-> "EXACTA", method |-> "NORMAL",
         content |-> Content("NORMAL", FALSE, <<>>, <<>>, <<Tokens(h)>>, <<>>, "EXACTA")] :
           h \in {<<5, 3>>, <<3, 5>>, <<12, 7>>}}
  \cup {[bet_type |-> "TRIFECTA", method |-> "NORMAL",
         content |-> Content("NORMAL", FALSE, <<>>, <<>>, <<Tokens(h)>>, <<>>, "TRIFECTA")] :
           h \in {<<5, 3, 8>>, <<3, 5, 8>>}}

InitCover ==
  /\ SysIdle
  /\ fin \in {[t |-> "cover", bet_type |-> x.bet_type, method |-> x.method, content |-> x.content] :
                x \in CoverInputs}
  /\ fout = NoFun

\* _expand_combinations on the content as scraped, and on the content the
\* tickets row holds
Cover ==
  /\ fin.t = "cover" /\ fout = NoFun
  /\ fout' = [t |-> "covered",
              raw |-> _expand_combinations(fin.bet_type, fin.method, Dict(fin.content)),
              stored |-> _expand_combinations(fin.bet_type, fin.method,
                                              Dict(_normalize_horse_numbers(fin.content)))]
  /\ UNCHANGED <<sysvars, fin>>

SpecCover == InitCover /\ [][Cover]_vars

\* C26: normalization does not change what a ticket covers: the expansion of
\* the normalized content has the same ordered tuples as the expansion of the
\* raw content for EXACTA and TRIFECTA, and the same sets for the other bet
\* types; a NORMAL EXACTA ticket bought 5-3 still covers 5-3 when stored.
C26_NormalizationKeepsCover ==
  fout.t = "covered" =>
    /\ fout.raw.ok = fout.stored.ok
    /\ fout.raw.ok =>
          IF Ordered(fin.bet_type) THEN SetOf(fout.raw.v) = SetOf(fout.stored.v)
          ELSE {SetOf(fout.raw.v[k]) : k \in 1..Len(fout.raw.v)}
                 = {SetOf(fout.stored.v[k]) : k \in 1..Len(fout.stored.v)}

(***************************************************************************)
(* The positional rule and the enumeration: _is_hit_nagashi_ordered and    *)
(* the NAGASHI branch of _expand_combinations on one non-multi NAGASHI     *)
(* ticket with positions and one winning tuple.  The ticket has fewer axis *)
(* horses than the bet type has slots, one position for each axis horse,   *)
(* no horse and no slot twice; the content is the mapping both signatures  *)
(* declare.                                                                *)
(***************************************************************************)
Horses == {3, 5, 8}

\* the sequences of distinct members of S of length n
Distinct(S, n) == {t \in [1..n -> S] : \A i, j \in 1..n : i # j => t[i] # t[j]}

\* a set of horses as the ascending list the tickets row holds
RECURSIVE AscendingSeq(_)
AscendingSeq(S) ==
  IF S = {} THEN <<>>
  ELSE LET m == CHOOSE x \in S : \A y \in S : x <= y IN <<m>> \o AscendingSeq(S \ {m})

PositionalTickets ==
  UNION {{[bet_type |-> b, axis |-> a, positions |-> ps, partners |-> AscendingSeq(P)] :
            a \in Distinct(Horses, n), ps \in Distinct(1.._get_combination_r(b), n),
            P \in SUBSET Horses}
         : b \in {"EXACTA", "TRIFECTA"}, n \in {1, 2}}

InitPositional ==
  /\ SysIdle
  /\ fin \in UNION {{[t |-> "positional", bet_type |-> x.bet_type,
                      content |-> Content("NAGASHI", FALSE, [k \in 1..Len(x.axis) |-> T(x.axis[k])],
                                          [k \in 1..Len(x.partners) |-> T(x.partners[k])],
                                          <<>>, x.positions, x.bet_type),
                      winning_horses |-> W] :
                        W \in Distinct(Horses, _get_combination_r(x.bet_type))}
                    : x \in {y \in PositionalTickets :
                               Len(y.axis) < _get_combination_r(y.bet_type)}}
  /\ fout = NoFun

\* the verdict of _is_hit_nagashi_ordered, and the list _expand_combinations
\* returns for the same content
Positional ==
  /\ fin.t = "positional" /\ fout = NoFun
  /\ fout' = [t |-> "verdict",
              hit |-> _is_hit_nagashi_ordered(Dict(fin.content), fin.winning_horses),
              general |-> _expand_combinations(fin.bet_type, "NAGASHI", Dict(fin.content))]
  /\ UNCHANGED <<sysvars, fin>>

SpecPositional == InitPositional /\ [][Positional]_vars

\* the r-tuples that have each axis horse at its target slot and a partner at
\* every other slot
SlotTuples(c, r) ==
  {t \in [1..r -> Horses] :
     /\ \A k \in 1..Len(c.axis) : t[c.positions[k]] = IntOfStr(c.axis[k])
     /\ \A j \in 1..r : j \notin SetOf(c.positions)
           => t[j] \in {IntOfStr(c.partners[k]) : k \in 1..Len(c.partners)}}

\* the axis horses stand in the leading slots, in order
Leading(positions) == \A k \in 1..Len(positions) : positions[k] = k

C27_WitnessLeading ==
  /\ fout.t = "verdict" /\ fin.bet_type = "TRIFECTA"
  /\ fin.content.axis = <<T(5), T(3)>> /\ fin.content.positions = <<1, 2>>
  /\ fin.content.partners = <<T(8)>>
  /\ fin.winning_horses = <<5, 3, 8>>
  /\ fout.hit = Ok(TRUE)
  /\ \E k \in 1..Len(fout.general.v) : fout.general.v[k] = <<5, 3, 8>>

(***************************************************************************)
(* The section of sale days, app/services/ipat_section.py.  A date is the  *)
(* number of its day; is_sale_day is given by the set of the sale days.    *)
(***************************************************************************)
Date(d) == [t |-> "date", v |-> d]

RECURSIVE find_anchor_exclusive(_, _, _, _)
\* the search over range(0, lookback_days)
find_anchor_exclusive(today, sale_days, delta, lookback_days) ==
  IF delta > lookback_days - 1 THEN None
  ELSE IF (today - delta) \in sale_days THEN Date(today - delta)
  ELSE find_anchor_exclusive(today, sale_days, delta + 1, lookback_days)

RECURSIVE find_anchor(_, _, _, _)
\* for delta in range(0, lookback_days + 1), from delta on
find_anchor(today, sale_days, delta, lookback_days) ==
  IF delta > lookback_days THEN None
  ELSE IF (today - delta) \in sale_days THEN Date(today - delta)
  ELSE find_anchor(today, sale_days, delta + 1, lookback_days)

RECURSIVE backtrack(_, _, _)
\* for _ in range(max_section_span_days), with n rounds left
backtrack(start, sale_days, n) ==
  IF n = 0 THEN start
  ELSE IF (start - 1) \notin sale_days THEN start
  ELSE backtrack(start - 1, sale_days, n - 1)

section_start_from(anchor, sale_days, max_section_span_days) ==
  IF anchor = None THEN Ok(None)
  ELSE Ok(Date(backtrack(anchor.v, sale_days, max_section_span_days)))

compute_section_start(today, sale_days, lookback_days, max_section_span_days) ==
  IF lookback_days <= 0 THEN Raise("ValueError")
  ELSE IF max_section_span_days <= 0 THEN Raise("ValueError")
  ELSE section_start_from(find_anchor(today, sale_days, 0, lookback_days),
                          sale_days, max_section_span_days)

MaxLookback == 6
MaxSpan == 3

\* the days of the calls: today is the 26th or the 27th of a month, and any
\* of the eight days up to the 27th can be a sale day
Todays == {26, 27}
SaleDays == 20..27

InitSection ==
  /\ SysIdle
  /\ fin \in {[t |-> "section", today |-> d, sale_days |-> S, lookback_days |-> l,
               max_section_span_days |-> m]
              : d \in Todays, S \in SUBSET SaleDays, l \in 0..MaxLookback, m \in 0..MaxSpan}
  /\ fout = NoFun

Section ==
  /\ fin.t = "section" /\ fout = NoFun
  /\ fout' = [t |-> "section_start",
              r |-> compute_section_start(fin.today, fin.sale_days, fin.lookback_days,
                                          fin.max_section_span_days)]
  /\ UNCHANGED <<sysvars, fin>>

SpecSection == InitSection /\ [][Section]_vars

Max(S) == CHOOSE x \in S : \A y \in S : y <= x
Min(S) == CHOOSE x \in S : \A y \in S : x <= y

\* the sale days among today and the lookback_days days before it
Window == {d \in (fin.today - fin.lookback_days)..fin.today : d \in fin.sale_days}

\* the days from which every day up to the anchor is a sale day, going back
\* at most max_section_span_days days
RunStarts(anchor) ==
  {d \in (anchor - fin.max_section_span_days)..anchor : \A e \in d..anchor : e \in fin.sale_days}

\* C25: for positive lookback_days and max_section_span_days,
\* compute_section_start returns None when no sale day lies among today and
\* the lookback_days days before it; otherwise the anchor is the latest sale
\* day at or before today, and the result is the first day of the run of
\* consecutive sale days ending at the anchor, at most max_section_span_days
\* days before the anchor.
C25_SectionStart ==
  (fout.t = "section_start" /\ fin.lookback_days > 0 /\ fin.max_section_span_days > 0) =>
     IF Window = {} THEN fout.r = Ok(None)
     ELSE fout.r = Ok(Date(Min(RunStarts(Max(Window)))))

\* reached: the sale days are the 20th to the 22nd, today is the 27th, and
\* the call has returned the 20th
C25_Witness ==
  /\ fout.t = "section_start"
  /\ fin.sale_days = {20, 21, 22} /\ fin.today = 27 /\ fin.lookback_days = MaxLookback
  /\ fout.r = Ok(Date(20))

(***************************************************************************)
(* The tickets table under sync and settlement runs                        *)
(***************************************************************************)
Terminal(r) == r.status \in {"WIN", "LOSE"}

RowOf(rows, id) == CHOOSE r \in rows : r.receipt_unique_id = id

\* C1: after any sequence of past and recent sync runs the tickets table holds
\* at most one row per receipt_unique_id.
C1_OneRowPerFingerprint ==
  \A r1, r2 \in tickets : r1.receipt_unique_id = r2.receipt_unique_id => r1 = r2

\* reached: a past sync has upserted two records that were both stored before
C1_Witness ==
  \E i \in Runs :
     /\ runs[i].mode = "past" /\ runs[i].pc = "upserted"
     /\ Cardinality(runs[i].recs) = 2 /\ runs[i].new_count = 0
     /\ runs[i].recs \subseteq tickets

\* C2: once a ticket is WIN or LOSE no later operation (settlement run, recent
\* sync, past sync upsert) changes its status or its payout.
C2_TerminalIsFinal ==
  [][\A r \in tickets : Terminal(r) =>
        \E n \in tickets' : /\ n.receipt_unique_id = r.receipt_unique_id
                            /\ n.status = r.status /\ n.payout = r.payout]_vars

\* C3: a ticket is first stored PENDING, and a row becomes WIN or LOSE only by
\* a settlement run judging the PENDING row; ingestion never stores WIN or LOSE.
C3_TerminalOnlyBySettlement ==
  [][\A n \in tickets' : (Terminal(n) /\ n \notin tickets) =>
        /\ settle'.op # "none"
        /\ \E r \in tickets : r.receipt_unique_id = n.receipt_unique_id /\ r.status = "PENDING"]_vars

\* The settlement runs pass over a race whose result lacks the payout data or
\* a finisher: its tickets are as before, and no exception comes from it.
MissingResultSkipped ==
  \A u \in settle.used : ~CompleteResult(u.result) =>
     /\ u.id \notin settle.raised_at
     /\ {r \in tickets : r.race_id = u.id} = {r \in settle.before : r.race_id = u.id}

\* C4: when the official result is absent (no payout data) settlement gives no
\* LOSE and raises nothing: the ticket is left PENDING with its payout.
C4_MissingResultLeavesPending ==
  (Judged /\ fin.payout_data = None)
  => /\ fout.r.ok
     /\ fout.r.v = [status |-> fin.row.status, payout |-> fin.row.payout]

\* C5: after a completed settlement run (update_results or judge_existing_races)
\* no ticket that was PENDING in a race the run settled with a complete
\* official result is still PENDING.
C5_CompletedRunDecides ==
  (settle.op # "none" /\ ~settle.propagated) =>
    \A u \in settle.used : CompleteResult(u.result) =>
       \A r \in settle.before : (r.race_id = u.id /\ r.status = "PENDING") =>
          Terminal(RowOf(tickets, r.receipt_unique_id))

C22_WitnessAllStored ==
  \E i \in Runs :
     /\ runs[i].mode = "recent" /\ runs[i].pc = "upserted" /\ ~runs[i].upsert_called
     /\ runs[i].recs # {}

C23_WitnessCompleted ==
  \E i \in Runs :
     /\ runs[i].pc = "done" /\ runs[i].mode = "past"
     /\ runs[i].raised = None /\ runs[i].upsert_called

\* C24: the new-data count in the COMPLETED message of a sync run is the
\* number of rows the run adds to the tickets table; the count is the number
\* of distinct fingerprints fetched minus those stored, it is not negative,
\* and new_count + existing_count is the number of distinct fingerprints.
C24_NewCountIsRowsAdded ==
  [][\A i \in DOMAIN runs :
       /\ (runs[i].pc # "counted" /\ runs'[i].pc = "counted") =>
             LET ids == {r.receipt_unique_id : r \in runs'[i].recs}
                 old == {x \in ids : \E r \in tickets : r.receipt_unique_id = x}
             IN /\ runs'[i].new_count = Cardinality(ids \ old)
                /\ runs'[i].new_count >= 0
                /\ runs'[i].new_count + runs'[i].existing_count = Cardinality(ids)
       /\ (runs'[i] # runs[i] /\ runs'[i].pc = "done" /\ sync_logs'[i].status = "COMPLETED") =>
             sync_logs'[i].message =
               (IF runs'[i].added = 0 THEN <<"SYNC_COMPLETED", "NO_NEW_DATA_FOUND">>
                ELSE <<"SYNC_COMPLETED">> \o StrOfInt(runs'[i].added) \o <<"NEW_DATA_FOUND">>)]_vars

\* C29: under every interleaving of two sync runs and the settlement runs,
\* the upsert of a recent sync changes neither the status nor the payout of
\* a row the tickets table holds.
C29_RecentNeverOverwrites ==
  [][\A i \in DOMAIN runs :
       (runs[i].mode = "recent" /\ runs[i].pc = "checked" /\ runs'[i].pc = "upserted") =>
          \A r \in tickets :
             \E n \in tickets' : /\ n.receipt_unique_id = r.receipt_unique_id
                                 /\ n.status = r.status /\ n.payout = r.payout]_vars

\* C28: in a recent sync the immediate judgment comes after the ticket upsert
\* and before COMPLETED is written.  When no exception was raised in it, no
\* ticket the run inserted for a race that was FINISHED with its finishers
\* and payout data is PENDING after it; and whether it raised or not, the run
\* that has judged ends COMPLETED, not ERROR.
C28_ImmediateJudgment ==
  [][\A i \in DOMAIN runs :
       /\ (runs[i].mode = "recent" /\ runs'[i].pc = "judged" /\ runs[i].pc # "judged") =>
             /\ runs[i].pc = "upserted"
             /\ sync_logs'[i].status = "PROCESSING"
             /\ ~runs'[i].judge_raised =>
                   \A r \in runs[i].insert_records :
                      (/\ races[r.race_id].status = "FINISHED"
                       /\ CompleteResult(ResultOf(races[r.race_id])))
                      => \A n \in tickets' :
                            n.receipt_unique_id = r.receipt_unique_id => n.status # "PENDING"
       /\ (runs[i].mode = "recent" /\ runs[i].pc \in {"upserted", "judged"}
              /\ runs'[i].pc \notin {"upserted", "judged"}) =>
             /\ runs[i].pc = "judged"
             /\ runs'[i].pc = "done" /\ runs'[i].raised = None
             /\ sync_logs'[i].status = "COMPLETED"]_vars

\* reached: the immediate judgment of a recent sync has settled, without an
\* exception, a ticket the run had inserted for a FINISHED race
C28_Witness ==
  \E i \in DOMAIN runs :
     /\ runs[i].mode = "recent" /\ runs[i].pc = "judged" /\ ~runs[i].judge_raised
     /\ \E r \in runs[i].insert_records :
           /\ races[r.race_id].status = "FINISHED"
           /\ CompleteResult(ResultOf(races[r.race_id]))
           /\ \E n \in tickets : n.receipt_unique_id = r.receipt_unique_id /\ Terminal(n)

\* reached: an exception was raised in the immediate judgment
C28_WitnessRaised ==
  \E i \in DOMAIN runs : runs[i].mode = "recent" /\ runs[i].pc = "judged" /\ runs[i].judge_raised

(***************************************************************************)
(* The Playwright slot: scraping sessions of one instance, each a thread   *)
(* inside "with _playwright_slot():", and the bounded semaphore they share *)
(***************************************************************************)
MaxSessions == 3

MaxConcurrency == 2

Sessions == 1..MaxSessions

\* a session: pc is its position ("idle", "acquire" inside
\* _PLAYWRIGHT_SEMAPHORE.acquire, "body" inside the with block, "finally" in
\* the finally clause, "done"), pending the exit of the body that the finally
\* clause is run for, result what the session ended with
NoSession == [pc |-> "idle", pending |-> None, result |-> None]

SlotBusy ==
  <<"Playwright is busy (too many concurrent sessions in this instance). ",
    "Please retry in a moment.">>

\* the exceptions raised inside the slot
BodyErrors == ScrapeErrors \ {SlotBusy}

\* Semaphore.acquire(timeout=...): the semaphore after taking a slot
acquire(sem) == [sem EXCEPT !.value = @ - 1]

\* BoundedSemaphore.release()
release(sem) ==
  IF sem.value >= sem.initial
  THEN Raise(<<"ValueError">>)
  ELSE Ok([sem EXCEPT !.value = @ + 1])

InitSlot ==
  /\ tickets = {}
  /\ races = [id \in RaceIds |-> RaceRow("BEFORE", NoResult)]
  /\ runs = [i \in Runs |-> Idle]
  /\ sync_logs = [i \in Runs |-> NoLog]
  /\ settle = NoSettle
  /\ fin = NoFun
  /\ fout = NoFun
  /\ \E n \in 0..MaxConcurrency : _PLAYWRIGHT_SEMAPHORE = BoundedSemaphore(n)
  /\ sessions = [i \in Sessions |-> NoSession]

\* a session reaches "with _playwright_slot():"
Enter(i) ==
  /\ sessions[i].pc \in {"idle", "done"}
  /\ sessions' = [sessions EXCEPT ![i] = [NoSession EXCEPT !.pc = "acquire"]]
  /\ UNCHANGED _PLAYWRIGHT_SEMAPHORE

\* acquire returns True: the session holds a slot and its body starts
Acquired(i) ==
  /\ sessions[i].pc = "acquire"
  /\ _PLAYWRIGHT_SEMAPHORE.value > 0
  /\ _PLAYWRIGHT_SEMAPHORE' = acquire(_PLAYWRIGHT_SEMAPHORE)
  /\ sessions' = [sessions EXCEPT ![i].pc = "body"]

\* acquire returns False after the timeout: the busy error
NotAcquired(i) ==
  /\ sessions[i].pc = "acquire"
  /\ _PLAYWRIGHT_SEMAPHORE.value = 0
  /\ sessions' = [sessions EXCEPT ![i].pc = "done", ![i].result = Raise(SlotBusy)]
  /\ UNCHANGED _PLAYWRIGHT_SEMAPHORE

\* the body of the with block returns
BodyReturns(i) ==
  /\ sessions[i].pc = "body"
  /\ sessions' = [sessions EXCEPT ![i].pc = "finally", ![i].pending = Ok(None)]
  /\ UNCHANGED _PLAYWRIGHT_SEMAPHORE

\* the body of the with block raises
BodyRaises(i) ==
  /\ sessions[i].pc = "body"
  /\ \E e \in BodyErrors :
       sessions' = [sessions EXCEPT ![i].pc = "finally", ![i].pending = Raise(e)]
  /\ UNCHANGED _PLAYWRIGHT_SEMAPHORE

\* the semaphore after release() has returned or raised
released(sem, r) == IF r.ok THEN r.v ELSE sem

\* what leaves the with block: the exit of the body, or the exception of the
\* finally clause in its place
after_finally(pending, r) == IF r.ok THEN pending ELSE r

\* a finally clause that is run only when the body returned
Release_after_return_only(i) ==
  /\ sessions[i].pc = "finally"
  /\ IF sessions[i].pending.ok
     THEN _PLAYWRIGHT_SEMAPHORE' = [_PLAYWRIGHT_SEMAPHORE EXCEPT !.value = @ + 1]
     ELSE UNCHANGED _PLAYWRIGHT_SEMAPHORE
  /\ sessions' = [sessions EXCEPT ![i].pc = "done", ![i].result = sessions[i].pending]

\* finally: _PLAYWRIGHT_SEMAPHORE.release(), then the exit of the body goes on
Release(i) ==
  /\ sessions[i].pc = "finally"
  /\ _PLAYWRIGHT_SEMAPHORE' = released(_PLAYWRIGHT_SEMAPHORE, release(_PLAYWRIGHT_SEMAPHORE))
  /\ sessions' = [sessions EXCEPT ![i].pc = "done",
                                  ![i].result = after_finally(sessions[i].pending,
                                                              release(_PLAYWRIGHT_SEMAPHORE))]

Slot ==
  /\ \E i \in Sessions :
       \/ Enter(i)
       \/ Acquired(i)
       \/ NotAcquired(i)
       \/ BodyReturns(i)
       \/ BodyRaises(i)
       \/ Release(i)
  /\ UNCHANGED <<tickets, races, runs, sync_logs, settle, fin, fout>>

SpecSlot == InitSlot /\ [][Slot]_vars

\* the sessions inside a Playwright slot
Inside == {i \in DOMAIN sessions : sessions[i].pc \in {"body", "finally"}}

\* C30: at most PLAYWRIGHT_MAX_CONCURRENCY sessions are inside a slot; the free
\* slots are the initial ones less the sessions inside, so a session that
\* failed with the busy error took and gave back none, every session that
\* left its body, by return or by exception, gave its slot back, and with no
\* session inside the free slots are the initial ones again.
C30_PlaywrightSlots ==
  /\ Cardinality(Inside) <= _PLAYWRIGHT_SEMAPHORE.initial
  /\ _PLAYWRIGHT_SEMAPHORE.value = _PLAYWRIGHT_SEMAPHORE.initial - Cardinality(Inside)
  /\ Inside = {} => _PLAYWRIGHT_SEMAPHORE.value = _PLAYWRIGHT_SEMAPHORE.initial
  /\ \A i \in DOMAIN sessions :
        sessions[i].pc = "done" =>
          /\ sessions[i].result # Raise(<<"ValueError">>)
          /\ sessions[i].result = Raise(SlotBusy) => sessions[i].pending = None

\* reached: every slot is free again after one session has left its body by an
\* exception and another has failed with the busy error
C30_Witness ==
  /\ _PLAYWRIGHT_SEMAPHORE.initial > 0
  /\ Inside = {}
  /\ \E i, j \in DOMAIN sessions :
        /\ sessions[i].pc = "done" /\ sessions[i].result \in {Raise(e) : e \in BodyErrors}
        /\ sessions[j].pc = "done" /\ sessions[j].result = Raise(SlotBusy)

\* reached: every slot is taken while another session waits for one
C30_WitnessFull ==
  /\ _PLAYWRIGHT_SEMAPHORE.initial > 0
  /\ Cardinality(Inside) = _PLAYWRIGHT_SEMAPHORE.initial
  /\ \E i \in DOMAIN sessions : sessions[i].pc = "acquire"

====
